---- MODULE Spec2Model ----
(***************************************************************************)
(* NASA-WeatherSense backend: the /api/weather controller, the Gemini      *)
(* adapter with its 60 second timeout race, and the Visual Crossing        *)
(* forecast service (target-date fetch, five historical fetches and the    *)
(* statistics computed from them); and the browser side: the HomePage      *)
(* state, the date fetchWeatherReport sends, and the LocationPicker.       *)
(*                                                                         *)
(* Strings that the code inspects character by character (query            *)
(* parameters) are sequences of one-character strings.  Error messages are *)
(* sequences of fragments, cut so that every occurrence of the substring   *)
(* "timeout" is a fragment of its own.  A generated text is a sequence of  *)
(* tokens: the Markdown fence, the word "json", a blank, a line break, or   *)
(* one token standing for a whole document.                                *)
(***************************************************************************)
EXTENDS Integers, Sequences, FiniteSets, TLC

VARIABLES
  query,          \* req.query: the three query parameters as express parsed them
  vcForecast,     \* the vcForecast argument of GeminiService.getWeatherAnalysis
  pc,             \* position of the handler, or of the adapter called directly
  contentPromise, \* the provider call model.generateContent(prompt)
  timeoutPromise, \* the 60 s timer of GeminiService.getWeatherAnalysis
  raceWinner,     \* which promise settled Promise.race: "content" or "timer"
  adapterResult,  \* how geminiService.getWeatherAnalysis settled
  responses,      \* the res.status(..).json(..) calls made, in order
  outbound,       \* outbound calls made on behalf of the HTTP request
  vcPc,           \* position of VisualCrossingService.getStatisticalForecast
  isFuture,       \* targetDate > currentDate, taken at the start of the call
  mainAnswer,     \* what axios did for the target-date fetch (at most one)
  mainData,       \* what the target-date fetch returned
  histI,          \* loop variable i of getHistoricalData
  inFlight,       \* historical fetches issued and not yet completed
  histOutcomes,   \* what each completed historical fetch did, in completion order
  historicalData, \* the array getHistoricalData builds
  vcResult,       \* how getStatisticalForecast settled
  env,            \* process.env: the two API keys
  boot,           \* position of the process start-up
  exitCode,       \* the argument of process.exit, if it was called
  reqs,           \* the requests being served at the same time, each with
                  \* the values its handler invocation holds
  series,         \* the argument of a call of calculateTrend
  trend,          \* what that call returned
  currentDate,    \* new Date() in getStatisticalForecast: the instant, in
                  \* ticks since a UTC midnight
  timezoneOffset, \* local time minus UTC of the request's wall clock, in ticks
  dateArg,        \* the day asked for, counted in days from that UTC midnight
  loadingState,   \* HomePage: "idle", "loading", "success" or "error"
  weatherReport,  \* HomePage: the report shown, or null
  temperatureTrend, \* HomePage: the three trends shown, or null
  rainfallTrend,
  snowfallTrend,
  error,          \* HomePage: the ApiError shown, or null
  lastQuery,      \* HomePage: the query of the last handleQuerySubmit, or null
  fetches,        \* HomePage: the fetchWeatherReport calls that have not settled,
                  \* each with the isMounted flag of its invocation
  setStates,      \* HomePage: the state setters the running continuation of
                  \* handleQuerySubmit has still to call
  submits,        \* HomePage: the queries handleQuerySubmit was called with
  date,           \* WeatherQueryForm: the DateQuery DatePicker reported last
  clockYear,      \* new Date().getFullYear() in the browser
  formattedDate,  \* fetchWeatherReport: the date parameter it sends
  dateCheck,      \* the controller's verdict on that parameter
  value,          \* LocationPicker: the location the parent holds (prop value)
  onChangeCalls,  \* LocationPicker: the locations passed to onChange, in order
  marker,         \* LocationPicker: where the marker stands
  geocodeTimeoutRef, \* LocationPicker: the debounce timer that has not fired
  geocodeFetches, \* LocationPicker: geocoding requests that have not settled
  geocodeRequests, \* LocationPicker: every geocoding request issued
  isMountedRef,   \* LocationPicker: isMountedRef.current
  picks           \* LocationPicker: the coordinates clicked or dragged to

vars == <<query, vcForecast, pc, contentPromise, timeoutPromise, raceWinner, adapterResult,
          responses, outbound, vcPc, isFuture, mainAnswer, mainData, histI,
          inFlight, histOutcomes, historicalData, vcResult,
          env, boot, exitCode, reqs, series, trend,
          currentDate, timezoneOffset, dateArg,
          loadingState, weatherReport, temperatureTrend, rainfallTrend,
          snowfallTrend, error, lastQuery, fetches, setStates, submits,
          date, clockYear, formattedDate, dateCheck,
          value, onChangeCalls, marker, geocodeTimeoutRef, geocodeFetches,
          geocodeRequests, isMountedRef, picks>>

httpVars == <<query, vcForecast, pc, contentPromise, timeoutPromise, raceWinner,
              adapterResult, responses, outbound>>

vcVars == <<vcPc, isFuture, mainAnswer, mainData, histI, inFlight,
            histOutcomes, historicalData, vcResult>>

bootVars == <<env, boot, exitCode>>

\* The state of the HomePage component.
homeVars == <<loadingState, weatherReport, temperatureTrend, rainfallTrend,
              snowfallTrend, error, lastQuery, fetches, setStates, submits>>

\* The date on its way from the form to the controller.
dateVars == <<date, clockYear, formattedDate, dateCheck>>

\* The state of the LocationPicker component.
pickerVars == <<value, onChangeCalls, marker, geocodeTimeoutRef, geocodeFetches,
                geocodeRequests, isMountedRef, picks>>

\* The browser side.
uiVars == <<homeVars, dateVars, pickerVars>>

\* What the single request and the single forecast call leave alone.
restVars == <<env, boot, exitCode, reqs, series, trend,
              currentDate, timezoneOffset, dateArg, uiVars>>

\* The clock and whatever else lies outside the backend's request handling.
sideVars == <<currentDate, timezoneOffset, dateArg, uiVars>>

\* The backend, for the steps of the browser side.
backendVars == <<httpVars, vcVars, bootVars, reqs, series, trend,
                 currentDate, timezoneOffset, dateArg>>

----------------------------------------------------------------------------
(* Characters and numbers                                                  *)

DigitChars == <<"0", "1", "2", "3", "4", "5", "6", "7", "8", "9">>

IsDigit(c) == \E i \in 1..10 : DigitChars[i] = c

DigitVal(c) == (CHOOSE i \in 1..10 : DigitChars[i] = c) - 1

IsWhiteSpace(c) == c \in {" ", "\n"}

RECURSIVE Pow10(_)
Pow10(n) == IF n <= 0 THEN 1 ELSE 10 * Pow10(n - 1)

\* Index of the first position >= i of s that does not hold a digit.
RECURSIVE DigitsEnd(_, _)
DigitsEnd(s, i) ==
  IF i <= Len(s) /\ IsDigit(s[i]) THEN DigitsEnd(s, i + 1) ELSE i

\* Value of the digit string s[i..j-1] (0 when empty).
RECURSIVE DigitsVal(_, _, _)
DigitsVal(s, i, j) ==
  IF i >= j THEN 0 ELSE DigitsVal(s, i, j - 1) * 10 + DigitVal(s[j - 1])

RECURSIVE SkipWhiteSpace(_, _)
SkipWhiteSpace(s, i) ==
  IF i <= Len(s) /\ IsWhiteSpace(s[i]) THEN SkipWhiteSpace(s, i + 1) ELSE i

NaN == [kind |-> "NaN", num |-> 0, den |-> 1]

\* The element of a one-element set.  An intermediate result is bound once
\* by drawing it from its singleton.
Only(S) == CHOOSE x \in S : TRUE

\* The value of a StrDecimalLiteral whose sign, integer digits s[p1..p2-1],
\* fraction digits (fl of them, ending before p3) and exponent digits
\* s[q1..q2-1] have been found; pe is where an exponent may start.
DecimalValue(s, sgn, p1, p2, p3, pe, q1, q2) ==
  LET dot  == p2 <= Len(s) /\ s[p2] = "."
      fl   == IF dot THEN p3 - (p2 + 1) ELSE 0
      mant == DigitsVal(s, p1, p2) * Pow10(fl)
              + (IF dot THEN DigitsVal(s, p2 + 1, p3) ELSE 0)
      eneg == q2 > q1 /\ s[pe + 1] = "-"
      ex   == IF q2 > q1 THEN DigitsVal(s, q1, q2) ELSE 0
  IN  IF eneg
      THEN [kind |-> "number", num |-> sgn * mant,
            den |-> Pow10(fl) * Pow10(ex)]
      ELSE [kind |-> "number", num |-> sgn * mant * Pow10(ex),
            den |-> Pow10(fl)]

\* The optional exponent: e or E, an optional sign and at least one digit.
ParseExponent(s, sgn, p1, p2, p3, pe) ==
  LET isE == pe <= Len(s) /\ s[pe] \in {"e", "E"}
      q1  == IF isE /\ pe + 1 <= Len(s) /\ s[pe + 1] \in {"-", "+"}
             THEN pe + 2 ELSE pe + 1
  IN  Only({ DecimalValue(s, sgn, p1, p2, p3, pe, q1, q2) :
             q2 \in {IF isE THEN DigitsEnd(s, q1) ELSE q1} })

\* The optional fraction after the integer digits s[p1..p2-1]; without any
\* digit before or after the point there is no number.
ParseFraction(s, sgn, p1, p2) ==
  LET dot == p2 <= Len(s) /\ s[p2] = "."
  IN  Only({ IF p2 = p1 /\ ~(dot /\ p3 > p2 + 1) THEN NaN
             ELSE ParseExponent(s, sgn, p1, p2, p3, IF dot THEN p3 ELSE p2) :
             p3 \in {IF dot THEN DigitsEnd(s, p2 + 1) ELSE p2} })

\* The optional sign at p0 and the integer digits after it.
ParseSigned(s, p0) ==
  LET signed == p0 <= Len(s) /\ s[p0] \in {"-", "+"}
      sgn    == IF p0 <= Len(s) /\ s[p0] = "-" THEN -1 ELSE 1
      p1     == IF signed THEN p0 + 1 ELSE p0
  IN  Only({ ParseFraction(s, sgn, p1, p2) : p2 \in {DigitsEnd(s, p1)} })

\* ECMAScript parseFloat: skip leading white space, then the longest prefix
\* that is a StrDecimalLiteral: sign, digits, optional fraction, optional
\* exponent.  The result is the rational num/den, or NaN.
parseFloat(s) ==
  Only({ ParseSigned(s, p0) : p0 \in {SkipWhiteSpace(s, 1)} })

isNaN(v) == v.kind = "NaN"

\* v < k and v > k for an integer k; every comparison with NaN is false.
NumLt(v, k) == v.kind = "number" /\ v.num < k * v.den
NumGt(v, k) == v.kind = "number" /\ v.num > k * v.den

\* /^\d{2}-\d{2}-\d{4}$/.test(date)
dateRegex(s) ==
  /\ Len(s) = 10
  /\ \A i \in {1, 2, 4, 5, 7, 8, 9, 10} : IsDigit(s[i])
  /\ s[3] = "-"
  /\ s[6] = "-"

----------------------------------------------------------------------------
(* Query parameters                                                        *)

\* A value of req.query: undefined, a string, or what express builds for a
\* repeated (array) or a bracketed (object) parameter.
Undefined == [type |-> "undefined", chars |-> <<>>]
Str(cs)   == [type |-> "string", chars |-> cs]
ArrayVal  == [type |-> "array", chars |-> <<>>]
ObjectVal == [type |-> "object", chars |-> <<>>]

\* JavaScript truthiness: undefined and the empty string are falsy.
Truthy(v) == v.type # "undefined" /\ ~(v.type = "string" /\ v.chars = <<>>)

Latitudes ==
  { Undefined, ArrayVal, Str(<<>>),
    Str(<<"1", "0">>), Str(<<"-", "9", "0">>), Str(<<"9", "0", ".", "5">>),
    Str(<<"2", "0", "0">>), Str(<<"a", "b">>), Str(<<"1", "0", "a">>),
    Str(<<"1", "e", "3">>) }

Longitudes ==
  { Undefined, ObjectVal,
    Str(<<"7", "6">>), Str(<<"-", "1", "8", "0">>), Str(<<"3", "0", "0">>),
    Str(<<"-", "1", "8", "0", ".", "0", "1">>), Str(<<".">>) }

Dates ==
  { Undefined, ArrayVal,
    Str(<<"3", "0", "-", "0", "9", "-", "2", "0", "2", "6">>),
    Str(<<"2", "0", "2", "6", "-", "0", "9", "-", "3", "0">>),
    Str(<<"3", "-", "9", "-", "2", "0", "2", "6">>),
    Str(<<"3", "0", "-", "0", "9", "-", "2", "0", "2", "6", "\n">>),
    Str(<<"3", "0", "/", "0", "9", "/", "2", "0", "2", "6">>) }

----------------------------------------------------------------------------
(* Error messages                                                          *)

\* error.message.includes("timeout")
includesTimeout(msg) == \E i \in 1..Len(msg) : msg[i] = "timeout"

\* The timer's message reworded so that it no longer contains "timeout".
TimeoutMessage_TimedOut == <<"Gemini API timed out after 60 seconds">>
TimeoutMessage == <<"Gemini API ", "timeout", " after 60 seconds">>
InvalidJsonMessage == <<"Gemini returned invalid JSON. Please try again.">>
InvalidStructureMessage == <<"Invalid response structure from Gemini">>
FallbackMessage == <<"Failed to get weather analysis from Gemini">>
NullPropertyMessage ==
  <<"Cannot read properties of null (reading 'overall_comfortability_score')">>
TextBlockedMessage ==
  <<"[GoogleGenerativeAI Error]: Text not available. Response was blocked">>

\* What the provider call can reject with: Error objects (one of them a
\* transport error whose text speaks of a timeout) or a value that is not an
\* Error.
ProviderRejections ==
  { [isError |-> TRUE, message |-> <<"[GoogleGenerativeAI Error]: fetch failed">>],
    [isError |-> TRUE, message |-> <<"[GoogleGenerativeAI Error]: API key not valid">>],
    [isError |-> TRUE,
     message |-> <<"The operation was aborted due to ", "timeout">>],
    [isError |-> FALSE, message |-> <<"overloaded">>] }

----------------------------------------------------------------------------
(* Generated text                                                          *)

\* The three-backquote Markdown fence, as one token.
Fence == "FENCE"

NoObject ==
  [type |-> "none", doc |-> "", overall_comfortability_score |-> "absent",
   activities |-> "absent", visual_crossing_data |-> <<>>]

JsonObject(d, score, act) ==
  [type |-> "object", doc |-> d, overall_comfortability_score |-> score,
   activities |-> act, visual_crossing_data |-> <<>>]

\* The document tokens and the value JSON.parse gives for each; a field is
\* an object ("object"), present with a falsy value ("falsy") or absent.
DocumentTokens ==
  { "{full}", "{noScore}", "{noActivities}", "{zeroScore}", "{}", "null" }

ParseDocument(tok) ==
  CASE tok = "{full}"         -> JsonObject(tok, "object", "object")
    [] tok = "{noScore}"      -> JsonObject(tok, "absent", "object")
    [] tok = "{noActivities}" -> JsonObject(tok, "object", "absent")
    [] tok = "{zeroScore}"    -> JsonObject(tok, "falsy", "object")
    [] tok = "{}"             -> JsonObject(tok, "absent", "absent")
    [] tok = "null"           -> [NoObject EXCEPT !.type = "null", !.doc = tok]
    [] OTHER                  -> NoObject

RECURSIVE TrimLeft(_)
TrimLeft(t) ==
  IF t # <<>> /\ IsWhiteSpace(Head(t)) THEN TrimLeft(Tail(t)) ELSE t

RECURSIVE TrimRight(_)
TrimRight(t) ==
  IF t # <<>> /\ IsWhiteSpace(t[Len(t)])
  THEN TrimRight(SubSeq(t, 1, Len(t) - 1)) ELSE t

\* String.prototype.trim
trim(t) == TrimRight(TrimLeft(t))

\* t.startsWith(p)
startsWith(t, p) == Len(t) >= Len(p) /\ SubSeq(t, 1, Len(p)) = p

\* t.replace(/^<p>\s*\n/, ""): the greedy \s* followed by \n takes the white
\* space after the prefix p up to its last line break.
ReplaceOpening(t, p) ==
  IF ~startsWith(t, p) THEN t
  ELSE LET e  == SkipWhiteSpace(t, Len(p) + 1)
           nl == { i \in (Len(p) + 1)..(e - 1) : t[i] = "\n" }
       IN  IF nl = {} THEN t
           ELSE LET last == CHOOSE i \in nl : \A j \in nl : j <= i
                IN  SubSeq(t, last + 1, Len(t))

\* t.replace(/\n<fence>$/, "")
ReplaceClosing(t) ==
  IF Len(t) >= 2 /\ t[Len(t) - 1] = "\n" /\ t[Len(t)] = Fence
  THEN SubSeq(t, 1, Len(t) - 2) ELSE t

\* Lines 809-815: trim, then remove the fences.
stripFences(text) ==
  LET jsonText == trim(text)
  IN  IF startsWith(jsonText, <<Fence, "json">>)
      THEN ReplaceClosing(ReplaceOpening(jsonText, <<Fence, "json">>))
      ELSE IF startsWith(jsonText, <<Fence>>)
           THEN ReplaceClosing(ReplaceOpening(jsonText, <<Fence>>))
           ELSE jsonText

\* JSON.parse: white space around one document; NoObject for a SyntaxError.
JSONparse(t) ==
  LET core == trim(t)
  IN  IF Len(core) = 1 /\ core[1] \in DocumentTokens
      THEN ParseDocument(core[1]) ELSE NoObject

\* The texts response.text() can give; <<"throws">> stands for text()
\* raising instead of returning.
Texts ==
  { <<"{full}">>, <<"{noScore}">>, <<"{noActivities}">>, <<"{zeroScore}">>,
    <<"{}">>, <<"null">>, <<"garbage">>, <<>>,
    <<" ", "{full}", "\n">>,
    <<Fence, "json", "\n", "{full}", "\n", Fence>>,
    <<Fence, "\n", "{full}", "\n", Fence>>,
    <<Fence, "json", "{full}", Fence>>,
    <<Fence, "json", "\n", "{noScore}", "\n", Fence>>,
    <<"throws">> }

----------------------------------------------------------------------------
(* Visual Crossing: responses, fetchWeatherData, statistics                *)

\* The loop bound of getHistoricalData: for (let i = 1; i <= 5; i++).
HistoricalYears == 5

\* A VisualCrossingDay (lines 195-231), reduced to the fields the services
\* read.  The four measurements the statistics use are given; the others
\* take values that differ from field to field.
Day(t, p, h, w) ==
  [temp |-> t, tempmax |-> t + 3, tempmin |-> t - 4, feelslike |-> t - 1,
   humidity |-> h, precip |-> p, precipprob |-> 10 * p + 5,
   snow |-> 2, snowdepth |-> 7, windspeed |-> w, windgust |-> w + 9,
   cloudcover |-> 40, uvindex |-> 6, visibility |-> 24, pressure |-> 1013,
   conditions |-> "Rain, Partially cloudy",
   description |-> "Partly cloudy throughout the day with rain."]

NoData == [days |-> <<>>, resolvedAddress |-> ""]

\* What axios.get can do for one fetch: fail (network error, non-2xx,
\* provider error payload), answer without a days array, or answer with
\* zero, one or two days.
AxiosError  == [kind |-> "axiosError", days |-> <<>>]
NoDaysArray == [kind |-> "noDaysArray", days |-> <<>>]
Answer(ds)  == [kind |-> "answer", days |-> ds]

HistoricalAnswers ==
  { AxiosError, NoDaysArray, Answer(<<>>),
    Answer(<<Day(10, 0, 60, 10)>>), Answer(<<Day(12, 0, 60, 10)>>),
    Answer(<<Day(14, 0, 60, 10)>>), Answer(<<Day(16, 0, 60, 10)>>),
    Answer(<<Day(18, 0, 60, 10)>>),
    Answer(<<Day(14, 5, 81, 21), Day(10, 0, 60, 10)>>) }

TargetAnswers ==
  { AxiosError, NoDaysArray, Answer(<<>>), Answer(<<Day(15, 1, 70, 12)>>) }

VcErrorMessage == <<"Visual Crossing API error: Request failed">>
TypeErrorMessage == <<"Cannot read properties of undefined (reading 'length')">>

\* fetchWeatherData: response.data on success; an axios error is rethrown as
\* "Visual Crossing API error: ..."; the log line that reads
\* response.data.days.length raises a TypeError when days is missing, which
\* the catch rethrows unchanged.
fetchWeatherData(a) ==
  CASE a.kind = "axiosError"  ->
         [ok |-> FALSE, message |-> VcErrorMessage, data |-> NoData]
    [] a.kind = "noDaysArray" ->
         [ok |-> FALSE, message |-> TypeErrorMessage, data |-> NoData]
    [] OTHER ->
         [ok |-> TRUE, message |-> <<>>,
          data |-> [days |-> a.days, resolvedAddress |-> "addr"]]

\* The push without the test data.days.length > 0: an empty answer pushes
\* days[0], which is undefined (shown as a day of zeros).
pushHistorical_NoLengthCheck(hist, a) ==
  LET r == fetchWeatherData(a)
  IN  IF r.ok
      THEN Append(hist, IF Len(r.data.days) > 0 THEN r.data.days[1]
                        ELSE Day(0, 0, 0, 0))
      ELSE hist

\* One pass of the loop body of getHistoricalData (lines 351-365): the first
\* day of a non-empty answer is pushed, a failure is caught and logged.
pushHistorical(hist, a) ==
  LET r == fetchWeatherData(a)
  IN  IF r.ok /\ Len(r.data.days) > 0 THEN Append(hist, r.data.days[1])
      ELSE hist

RECURSIVE SumSeq(_)
SumSeq(xs) == IF xs = <<>> THEN 0 ELSE Head(xs) + SumSeq(Tail(xs))

MinSeq(xs) == CHOOSE m \in {xs[i] : i \in 1..Len(xs)} :
                \A i \in 1..Len(xs) : m <= xs[i]
MaxSeq(xs) == CHOOSE m \in {xs[i] : i \in 1..Len(xs)} :
                \A i \in 1..Len(xs) : m >= xs[i]

\* parseFloat((num/den).toFixed(2)), in hundredths; den > 0.  toFixed
\* rounds to the nearest hundredth, a tie away from zero.
RoundHalfUp(num, den) == (200 * num + den) \div (2 * den)
toFixed2(num, den) ==
  IF num >= 0 THEN RoundHalfUp(num, den) ELSE 0 - RoundHalfUp(0 - num, den)

\* Largest r with r * r <= x, for x >= 0, searched in lo..hi.
RECURSIVE ISqrtIn(_, _, _)
ISqrtIn(x, lo, hi) ==
  IF lo >= hi THEN lo
  ELSE LET mid == (lo + hi + 1) \div 2
       IN  IF mid <= x \div mid THEN ISqrtIn(x, mid, hi)
           ELSE ISqrtIn(x, lo, mid - 1)

\* parseFloat(Math.sqrt(num/den).toFixed(2)), in hundredths; num >= 0, den > 0.
sqrtToFixed2(num, den) ==
  LET x == (40000 * num) \div den
  IN  (ISqrtIn(x, 0, x) + 1) \div 2

\* The squares summed without the mean taken off.
Variance_Uncentred(xs) ==
  LET n == Len(xs)
      q == SumSeq([i \in 1..n |-> xs[i] * xs[i]])
  IN  [num |-> n * q, den |-> n * n]

\* Population variance of xs as the fraction num/den (lines 396-398).
Variance(xs) ==
  LET n == Len(xs)
      s == SumSeq(xs)
      q == SumSeq([i \in 1..n |-> xs[i] * xs[i]])
  IN  [num |-> n * q - s * s, den |-> n * n]

\* Every day counted as a day with precipitation.
daysWithPrecip_CountsDry(precips) ==
  Cardinality({i \in 1..Len(precips) : precips[i] >= 0})

\* precips.filter((p) => p > 0).length (line 404).
daysWithPrecip(precips) ==
  Cardinality({i \in 1..Len(precips) : precips[i] > 0})

\* The divisor of the slope (line 415): n * sumX2 - sumX * sumX.
slopeDenominator(n) ==
  n * (((n - 1) * n * (2 * n - 1)) \div 6)
    - (((n - 1) * n) \div 2) * (((n - 1) * n) \div 2)

\* The divisors met without the guards for the empty list and for a series
\* shorter than two.
statisticsDivisors_NoGuards(hist) ==
  LET n == Len(hist)
  IN  <<n, n, n, n, slopeDenominator(n), slopeDenominator(n)>>

\* The divisors of the divisions calculateStatistics performs for hist, in
\* the order of lines 392-405 (mean, variance, precipitation mean,
\* probability) followed by the slope divisions of the two calculateTrend
\* calls (line 415).
statisticsDivisors(hist) ==
  LET n == Len(hist)
  IN  IF n = 0 THEN <<>>
      ELSE <<n, n, n, n>> \o
           (IF n < 2 THEN <<>>
            ELSE <<slopeDenominator(n), slopeDenominator(n)>>)

\* The thresholds taken inclusively: a slope of exactly 0.1 is a trend.
calculateTrend_InclusiveThreshold(values) ==
  IF Len(values) < 2 THEN "Stable"
  ELSE LET n     == Len(values)
           sumX  == ((n - 1) * n) \div 2
           sumY  == SumSeq(values)
           sumXY == SumSeq([i \in 1..n |-> (i - 1) * values[i]])
           sumX2 == ((n - 1) * n * (2 * n - 1)) \div 6
           num   == n * sumXY - sumX * sumY
           den   == n * sumX2 - sumX * sumX
       IN  IF 10 * num >= den THEN "Increasing"
           ELSE IF 10 * num <= 0 - den THEN "Decreasing"
           ELSE "Stable"

\* calculateTrend (lines 407-420): least-squares slope of value against
\* index 0..n-1, compared unrounded with +-0.1.
calculateTrend(values) ==
  IF Len(values) < 2 THEN "Stable"
  ELSE LET n     == Len(values)
           sumX  == ((n - 1) * n) \div 2
           sumY  == SumSeq(values)
           sumXY == SumSeq([i \in 1..n |-> (i - 1) * values[i]])
           sumX2 == ((n - 1) * n * (2 * n - 1)) \div 6
           num   == n * sumXY - sumX * sumY
           den   == slopeDenominator(n)
       IN  IF den > 0
           THEN IF 10 * num > den THEN "Increasing"
                ELSE IF 10 * num < 0 - den THEN "Decreasing"
                ELSE "Stable"
           ELSE IF den < 0
           THEN IF 10 * num < den THEN "Increasing"
                ELSE IF 10 * num > 0 - den THEN "Decreasing"
                ELSE "Stable"
           ELSE IF num > 0 THEN "Increasing"
           ELSE IF num < 0 THEN "Decreasing"
           ELSE "Stable"

\* The defaults for the empty list with the trends left unset.
calculateStatistics_UnsetTrends(hist) ==
  [temperatureStats |->
     [mean |-> 0, min |-> 0, max |-> 0, standardDeviation |-> 0],
   precipitationStats |->
     [totalMean |-> 0, probability |-> 0, maxRecorded |-> 0],
   trends |->
     [temperatureTrend |-> IF Len(hist) = 0 THEN "" ELSE calculateTrend(
                             [i \in 1..Len(hist) |-> hist[i].temp]),
      precipitationTrend |-> ""]]

\* calculateStatistics (lines 371-439); numeric fields in hundredths.
calculateStatistics(hist) ==
  IF Len(hist) = 0
  THEN [temperatureStats |->
          [mean |-> 0, min |-> 0, max |-> 0, standardDeviation |-> 0],
        precipitationStats |->
          [totalMean |-> 0, probability |-> 0, maxRecorded |-> 0],
        trends |->
          [temperatureTrend |-> "Stable", precipitationTrend |-> "Stable"]]
  ELSE LET n       == Len(hist)
           temps   == [i \in 1..n |-> hist[i].temp]
           precips == [i \in 1..n |-> hist[i].precip]
           tempVariance   == Variance(temps)
       IN  [temperatureStats |->
              [mean |-> toFixed2(SumSeq(temps), n),
               min  |-> toFixed2(MinSeq(temps), 1),
               max  |-> toFixed2(MaxSeq(temps), 1),
               standardDeviation |->
                 sqrtToFixed2(tempVariance.num, tempVariance.den)],
            precipitationStats |->
              [totalMean   |-> toFixed2(SumSeq(precips), n),
               probability |-> toFixed2(daysWithPrecip(precips) * 100, n),
               maxRecorded |-> toFixed2(MaxSeq(precips), 1)],
            trends |->
              [temperatureTrend   |-> calculateTrend(temps),
               precipitationTrend |-> calculateTrend(precips)]]

\* monthlyAverages of getStatisticalForecast (lines 466-503), in hundredths.
monthlyAverages(hist) ==
  LET n == Len(hist)
      avg(f) == IF n > 0 THEN toFixed2(SumSeq([i \in 1..n |-> f[i]]), n) ELSE 0
  IN  [temperature   |-> avg([i \in 1..n |-> hist[i].temp]),
       precipitation |-> avg([i \in 1..n |-> hist[i].precip]),
       humidity      |-> avg([i \in 1..n |-> hist[i].humidity]),
       windspeed     |-> avg([i \in 1..n |-> hist[i].windspeed])]

\* The vcForecast argument left out (undefined).
NoForecast ==
  [present |-> FALSE, location |-> [address |-> ""],
   current |-> <<>>, forecast |-> <<>>,
   past5Years |-> <<>>, monthlyAverages |-> monthlyAverages(<<>>),
   statistics |-> calculateStatistics(<<>>)]

\* The fetched day placed under current and under forecast alike.
assembleForecast_BothFields(future, main, hist) ==
  LET day == IF Len(main.days) > 0 THEN <<main.days[1]>> ELSE <<>>
  IN  [present |-> TRUE,
       location |-> [address |-> main.resolvedAddress],
       current  |-> day,
       forecast |-> day,
       past5Years |-> hist,
       monthlyAverages |-> monthlyAverages(hist),
       statistics |-> calculateStatistics(hist)]

\* The StatisticalForecast assembled at lines 505-519; current and forecast
\* hold at most one day (the empty sequence is null).
assembleForecast(future, main, hist) ==
  LET day == IF Len(main.days) > 0 THEN <<main.days[1]>> ELSE <<>>
  IN  [present |-> TRUE,
       location |-> [address |-> main.resolvedAddress],
       current  |-> IF ~future THEN day ELSE <<>>,
       forecast |-> IF future THEN day ELSE <<>>,
       past5Years |-> hist,
       monthlyAverages |-> monthlyAverages(hist),
       statistics |-> calculateStatistics(hist)]

----------------------------------------------------------------------------
(* GeminiService.getWeatherAnalysis                                        *)

AdapterPending  == [kind |-> "pending", value |-> NoObject, message |-> <<>>]
AdapterOk(v)    == [kind |-> "ok", value |-> v, message |-> <<>>]
AdapterError(m) == [kind |-> "error", value |-> NoObject, message |-> m]

\* The felt temperature and the gust copied from the wrong measurements.
actualData_MixedUp(targetDay) ==
  [temperature |-> targetDay.temp,
   temperatureMax |-> targetDay.tempmax,
   temperatureMin |-> targetDay.tempmin,
   feelsLike |-> targetDay.temp,
   humidity |-> targetDay.humidity,
   precipitation |-> targetDay.precip,
   precipitationProbability |-> targetDay.precipprob,
   snow |-> targetDay.snow,
   snowDepth |-> targetDay.snowdepth,
   windSpeed |-> targetDay.windspeed,
   windGust |-> targetDay.windspeed,
   cloudCover |-> targetDay.cloudcover,
   uvIndex |-> targetDay.uvindex,
   visibility |-> targetDay.visibility,
   pressure |-> targetDay.pressure,
   conditions |-> targetDay.conditions,
   description |-> targetDay.description]

\* Lines 842-860: the measurements of the target day under their new names.
actualData(targetDay) ==
  [temperature |-> targetDay.temp,
   temperatureMax |-> targetDay.tempmax,
   temperatureMin |-> targetDay.tempmin,
   feelsLike |-> targetDay.feelslike,
   humidity |-> targetDay.humidity,
   precipitation |-> targetDay.precip,
   precipitationProbability |-> targetDay.precipprob,
   snow |-> targetDay.snow,
   snowDepth |-> targetDay.snowdepth,
   windSpeed |-> targetDay.windspeed,
   windGust |-> targetDay.windgust,
   cloudCover |-> targetDay.cloudcover,
   uvIndex |-> targetDay.uvindex,
   visibility |-> targetDay.visibility,
   pressure |-> targetDay.pressure,
   conditions |-> targetDay.conditions,
   description |-> targetDay.description]

\* The block appended for every supplied forecast, a forecast without a
\* target day giving the measurements of a day of zeros.
appendVisualCrossing_NoDayGuard(parsed, forecast) ==
  LET targetDay == IF forecast.current # <<>> THEN forecast.current
                   ELSE IF forecast.forecast # <<>> THEN forecast.forecast
                   ELSE <<Day(0, 0, 0, 0)>>
  IN  IF forecast.present
      THEN [parsed EXCEPT !.visual_crossing_data =
              << [source |-> "Visual Crossing Weather API",
                  location |-> forecast.location,
                  actualData |-> actualData(targetDay[1]),
                  historicalAverages |-> forecast.monthlyAverages,
                  statistics |-> forecast.statistics] >>]
      ELSE parsed

\* Lines 835-864: the block appended when a forecast with a target day was
\* supplied; visual_crossing_data holds at most one block.
appendVisualCrossing(parsed, forecast) ==
  LET targetDay == IF forecast.current # <<>> THEN forecast.current
                   ELSE forecast.forecast
  IN  IF forecast.present /\ targetDay # <<>>
      THEN [parsed EXCEPT !.visual_crossing_data =
              << [source |-> "Visual Crossing Weather API",
                  location |-> forecast.location,
                  actualData |-> actualData(targetDay[1]),
                  historicalAverages |-> forecast.monthlyAverages,
                  statistics |-> forecast.statistics] >>]
      ELSE parsed

\* Lines 804-866: what the adapter does with the text of a provider call
\* that won the race.
parseResponse(text, forecast) ==
  IF text = <<"throws">> THEN AdapterError(TextBlockedMessage)
  ELSE LET parsedResponse == JSONparse(stripFences(text))
       IN  IF parsedResponse.type = "none"
           THEN AdapterError(InvalidJsonMessage)
           ELSE IF parsedResponse.type = "null"
           THEN AdapterError(NullPropertyMessage)
           ELSE IF \/ parsedResponse.overall_comfortability_score # "object"
                   \/ parsedResponse.activities # "object"
           THEN AdapterError(InvalidStructureMessage)
           ELSE AdapterOk(appendVisualCrossing(parsedResponse, forecast))

\* Lines 867-875: an Error is rethrown, anything else is replaced.
rethrow(reason) ==
  IF reason.isError THEN AdapterError(reason.message)
  ELSE AdapterError(FallbackMessage)

TimeoutError == [isError |-> TRUE, message |-> TimeoutMessage]

----------------------------------------------------------------------------
(* WeatherController.getWeatherAnalysis                                    *)

\* The range checks placed before the date check.
validationError_RangesFirst(q) ==
  IF ~Truthy(q.latitude) \/ ~Truthy(q.longitude) \/ ~Truthy(q.date)
  THEN "Missing required parameters"
  ELSE IF \/ q.latitude.type # "string"
          \/ q.longitude.type # "string"
          \/ q.date.type # "string"
  THEN "Invalid parameter types"
  ELSE LET lat == parseFloat(q.latitude.chars)
           lon == parseFloat(q.longitude.chars)
       IN  IF isNaN(lat) \/ NumLt(lat, -90) \/ NumGt(lat, 90)
           THEN "Invalid latitude"
           ELSE IF isNaN(lon) \/ NumLt(lon, -180) \/ NumGt(lon, 180)
           THEN "Invalid longitude"
           ELSE IF ~dateRegex(q.date.chars)
           THEN "Invalid date format"
           ELSE ""

\* Lines 16-69: the error field of the 400 answer, "" when every check passes.
validationError(q) ==
  IF ~Truthy(q.latitude) \/ ~Truthy(q.longitude) \/ ~Truthy(q.date)
  THEN "Missing required parameters"
  ELSE IF \/ q.latitude.type # "string"
          \/ q.longitude.type # "string"
          \/ q.date.type # "string"
  THEN "Invalid parameter types"
  ELSE IF ~dateRegex(q.date.chars)
  THEN "Invalid date format"
  ELSE LET lat == parseFloat(q.latitude.chars)
           lon == parseFloat(q.longitude.chars)
       IN  IF isNaN(lat) \/ NumLt(lat, -90) \/ NumGt(lat, 90)
           THEN "Invalid latitude"
           ELSE IF isNaN(lon) \/ NumLt(lon, -180) \/ NumGt(lon, 180)
           THEN "Invalid longitude"
           ELSE ""

Response(st, err, body, details) ==
  [status |-> st, error |-> err, body |-> body, details |-> details]

\* Every failure of the adapter answered as a timeout.
respond_AlwaysTimeout(result) ==
  IF result.kind = "ok"
  THEN Response(200, "", result.value, <<>>)
  ELSE Response(504, "Gateway Timeout", NoObject, result.message)

\* Lines 84-103: the answer for a settled adapter call.  Every failure of the
\* adapter is an Error, so details is always its message.
respond(result) ==
  IF result.kind = "ok"
  THEN Response(200, "", result.value, <<>>)
  ELSE IF includesTimeout(result.message)
  THEN Response(504, "Gateway Timeout", NoObject, result.message)
  ELSE Response(500, "Internal server error", NoObject, result.message)

NoPromise == [state |-> "none", text |-> <<>>, reason |-> TimeoutError]
Pending   == [state |-> "pending", text |-> <<>>, reason |-> TimeoutError]

\* The adapter called before the checks: a request that fails a check has
\* started the provider call when it is answered 400.
getWeatherAnalysis_CallsBeforeChecks ==
  /\ pc = "received"
  /\ outbound' = Append(outbound, "generateContent")
  /\ LET err == validationError(query)
     IN  IF err # ""
         THEN /\ responses' = Append(responses, Response(400, err, NoObject, <<>>))
              /\ pc' = "done"
              /\ UNCHANGED <<contentPromise, timeoutPromise>>
         ELSE /\ pc' = "awaiting"
              /\ timeoutPromise' = Pending
              /\ contentPromise' = Pending
              /\ UNCHANGED responses
  /\ UNCHANGED <<query, vcForecast, raceWinner, adapterResult>>
  /\ UNCHANGED vcVars
  /\ UNCHANGED restVars

\* The synchronous part of the handler: validation, then the call of
\* geminiService.getWeatherAnalysis(weatherQuery), which starts the timer
\* and the provider call and waits for the race.
getWeatherAnalysis ==
  /\ pc = "received"
  /\ LET err == validationError(query)
     IN  IF err # ""
         THEN /\ responses' = Append(responses, Response(400, err, NoObject, <<>>))
              /\ pc' = "done"
              /\ UNCHANGED <<contentPromise, timeoutPromise, outbound>>
         ELSE /\ pc' = "awaiting"
              /\ timeoutPromise' = Pending
              /\ contentPromise' = Pending
              /\ outbound' = Append(outbound, "generateContent")
              /\ UNCHANGED responses
  /\ UNCHANGED <<query, vcForecast, raceWinner, adapterResult>>
  /\ UNCHANGED vcVars
  /\ UNCHANGED restVars

\* A promise that settles after the race still runs the handler's answer.
settleRace_NoGuard(winner, result) ==
  /\ raceWinner' = winner
  /\ adapterResult' = result
  /\ responses' = Append(responses, respond(result))
  /\ pc' = "done"

\* The race settles with the given adapter result and the awaiting handler
\* runs to its answer (a caller other than the handler just gets the result);
\* a promise that settles after the race is ignored.
settleRace(winner, result) ==
  IF pc = "awaiting"
  THEN /\ raceWinner' = winner
       /\ adapterResult' = result
       /\ responses' = Append(responses, respond(result))
       /\ pc' = "done"
  ELSE IF pc = "adapterAwaiting"
  THEN /\ raceWinner' = winner
       /\ adapterResult' = result
       /\ pc' = "adapterDone"
       /\ UNCHANGED responses
  ELSE UNCHANGED <<raceWinner, adapterResult, responses, pc>>

\* model.generateContent(prompt) resolves.
contentPromiseResolve ==
  \E text \in Texts :
    /\ contentPromise.state = "pending"
    /\ contentPromise' = [contentPromise EXCEPT !.state = "fulfilled", !.text = text]
    /\ settleRace("content", parseResponse(text, vcForecast))
    /\ UNCHANGED <<query, vcForecast, timeoutPromise, outbound>>
    /\ UNCHANGED vcVars
    /\ UNCHANGED restVars

\* A rejected provider call is made again instead of failing the call.
contentPromiseReject_Retry ==
  \E reason \in ProviderRejections :
    /\ contentPromise.state = "pending"
    /\ pc \in {"awaiting", "adapterAwaiting"}
    /\ outbound' = Append(outbound, "generateContent")
    /\ UNCHANGED <<query, vcForecast, pc, contentPromise, timeoutPromise,
                   raceWinner, adapterResult, responses>>
    /\ UNCHANGED vcVars
    /\ UNCHANGED restVars

\* model.generateContent(prompt) rejects.
contentPromiseReject ==
  \E reason \in ProviderRejections :
    /\ contentPromise.state = "pending"
    /\ contentPromise' = [contentPromise EXCEPT !.state = "rejected", !.reason = reason]
    /\ settleRace("content", rethrow(reason))
    /\ UNCHANGED <<query, vcForecast, timeoutPromise, outbound>>
    /\ UNCHANGED vcVars
    /\ UNCHANGED restVars

\* The 60 s timer fires; it is never cleared, so it also fires after the
\* provider call has completed.
timeoutPromiseReject ==
  /\ timeoutPromise.state = "pending"
  /\ timeoutPromise' = [timeoutPromise EXCEPT !.state = "rejected"]
  /\ settleRace("timer", rethrow(TimeoutError))
  /\ UNCHANGED <<query, vcForecast, contentPromise, outbound>>
  /\ UNCHANGED vcVars
  /\ UNCHANGED restVars

\* Lines 783-803 for a caller other than the handler: the prompt is built,
\* the timer and the provider call are started and the race is awaited.
geminiGetWeatherAnalysis ==
  /\ pc = "adapterCalled"
  /\ pc' = "adapterAwaiting"
  /\ timeoutPromise' = Pending
  /\ contentPromise' = Pending
  /\ outbound' = Append(outbound, "generateContent")
  /\ UNCHANGED <<query, vcForecast, raceWinner, adapterResult, responses>>
  /\ UNCHANGED vcVars
  /\ UNCHANGED restVars

----------------------------------------------------------------------------
(* VisualCrossingService.getStatisticalForecast                            *)

ForecastPending  == [kind |-> "pending", value |-> NoForecast, message |-> <<>>]
ForecastOk(f)    == [kind |-> "ok", value |-> f, message |-> <<>>]
ForecastError(m) == [kind |-> "error", value |-> NoForecast, message |-> m]

\* Lines 446-456: the date is reformatted, isFuture is taken and the
\* target-date fetch (fetch 0) is issued; outbound logs it as
\* "fetchWeatherData" and each historical fetch as "getHistoricalData".
getStatisticalForecast ==
  /\ vcPc = "called"
  /\ vcPc' = "mainFetch"
  /\ inFlight' = inFlight \cup {0}
  /\ outbound' = Append(outbound, "fetchWeatherData")
  /\ UNCHANGED <<isFuture, mainAnswer, mainData, histI, histOutcomes,
                 historicalData, vcResult>>
  /\ UNCHANGED <<query, vcForecast, pc, contentPromise, timeoutPromise,
                 raceWinner, adapterResult, responses>>
  /\ UNCHANGED restVars

\* The target-date fetch completes: a failure is rethrown by the catch at
\* lines 520-526, a success enters getHistoricalData.
mainDataSettle ==
  \E a \in TargetAnswers :
    /\ vcPc = "mainFetch"
    /\ 0 \in inFlight
    /\ inFlight' = inFlight \ {0}
    /\ mainAnswer' = <<a>>
    /\ LET r == fetchWeatherData(a)
       IN  IF r.ok
           THEN /\ mainData' = r.data
                /\ histI' = 1
                /\ vcPc' = "histLoop"
                /\ UNCHANGED vcResult
           ELSE /\ vcResult' = ForecastError(r.message)
                /\ vcPc' = "rejected"
                /\ UNCHANGED <<mainData, histI>>
    /\ UNCHANGED <<isFuture, histOutcomes, historicalData>>
    /\ UNCHANGED httpVars
    /\ UNCHANGED restVars

\* The loop issues the fetch and goes on to the next year without awaiting.
historicalFetchIssue_NoAwait ==
  /\ vcPc = "histLoop"
  /\ histI <= HistoricalYears
  /\ inFlight' = inFlight \cup {histI}
  /\ histI' = histI + 1
  /\ outbound' = Append(outbound, "getHistoricalData")
  /\ UNCHANGED <<vcPc, isFuture, mainAnswer, mainData, histOutcomes,
                 historicalData, vcResult>>
  /\ UNCHANGED <<query, vcForecast, pc, contentPromise, timeoutPromise,
                 raceWinner, adapterResult, responses>>
  /\ UNCHANGED restVars

\* Lines 347-356: the loop issues the fetch for targetYear - i and awaits it.
historicalFetchIssue ==
  /\ vcPc = "histLoop"
  /\ histI <= HistoricalYears
  /\ inFlight' = inFlight \cup {histI}
  /\ vcPc' = "histAwait"
  /\ outbound' = Append(outbound, "getHistoricalData")
  /\ UNCHANGED <<isFuture, mainAnswer, mainData, histI, histOutcomes,
                 historicalData, vcResult>>
  /\ UNCHANGED <<query, vcForecast, pc, contentPromise, timeoutPromise,
                 raceWinner, adapterResult, responses>>
  /\ UNCHANGED restVars

\* The awaited fetch completes; a failure is not caught and ends the call.
historicalFetchSettle_Uncaught ==
  \E a \in HistoricalAnswers :
    /\ vcPc = "histAwait"
    /\ histI \in inFlight
    /\ inFlight' = inFlight \ {histI}
    /\ histOutcomes' = Append(histOutcomes, a)
    /\ IF fetchWeatherData(a).ok
       THEN /\ historicalData' = pushHistorical(historicalData, a)
            /\ histI' = histI + 1
            /\ vcPc' = "histLoop"
            /\ UNCHANGED vcResult
       ELSE /\ vcResult' = ForecastError(fetchWeatherData(a).message)
            /\ vcPc' = "rejected"
            /\ UNCHANGED <<historicalData, histI>>
    /\ UNCHANGED <<isFuture, mainAnswer, mainData>>
    /\ UNCHANGED httpVars
    /\ UNCHANGED restVars

\* Lines 357-366: the awaited fetch completes or fails and the loop goes on.
historicalFetchSettle ==
  \E a \in HistoricalAnswers :
    /\ vcPc = "histAwait"
    /\ histI \in inFlight
    /\ inFlight' = inFlight \ {histI}
    /\ histOutcomes' = Append(histOutcomes, a)
    /\ historicalData' = pushHistorical(historicalData, a)
    /\ histI' = histI + 1
    /\ vcPc' = "histLoop"
    /\ UNCHANGED <<isFuture, mainAnswer, mainData, vcResult>>
    /\ UNCHANGED httpVars
    /\ UNCHANGED restVars

\* Lines 368 and 464-519: getHistoricalData returns, the statistics are
\* computed and the forecast is returned.
forecastReturn ==
  /\ vcPc = "histLoop"
  /\ histI > HistoricalYears
  /\ vcResult' = ForecastOk(assembleForecast(isFuture, mainData, historicalData))
  /\ vcPc' = "resolved"
  /\ UNCHANGED <<isFuture, mainAnswer, mainData, histI, inFlight, histOutcomes,
                 historicalData>>
  /\ UNCHANGED httpVars
  /\ UNCHANGED restVars

\* Answers of the target-date fetch and historical lists from which the
\* forecasts handed to the adapter are assembled.
SuppliedMain ==
  { [days |-> <<Day(15, 1, 70, 12)>>, resolvedAddress |-> "addr"],
    [days |-> <<>>, resolvedAddress |-> "addr"] }

SuppliedHistory ==
  { <<>>, <<Day(14, 5, 81, 21), Day(10, 0, 60, 10)>> }

----------------------------------------------------------------------------
(* The future/current classification of getStatisticalForecast             *)

\* Time is counted in ticks, DayTicks of them to a day.
DayTicks == 4

\* The offsets of local time from UTC: up to half a day either way.
TimezoneOffsets == (0 - (DayTicks \div 2))..(DayTicks \div 2)

\* new Date(vcDate) for vcDate = "YYYY-MM-DD" (lines 451 and 453): a
\* date-only string is read as midnight UTC of that day.
targetDate(d) == d * DayTicks

\* Line 454: targetDate > currentDate, a comparison of instants.
isFutureOf(d, now) == targetDate(d) > now

\* Lines 451-454: the clock is read and the target date is classified.
classifyTargetDate ==
  /\ vcPc = "dateGiven"
  /\ isFuture' = isFutureOf(dateArg, currentDate)
  /\ vcPc' = "classified"
  /\ UNCHANGED <<mainAnswer, mainData, histI, inFlight, histOutcomes,
                 historicalData, vcResult>>
  /\ UNCHANGED <<httpVars, restVars>>

\* Lines 456-519 without the historical fetches: the target-date answer
\* arrives and its day is placed by isFuture.
placeTargetDay ==
  \E m \in SuppliedMain :
    /\ vcPc = "classified"
    /\ mainData' = m
    /\ vcResult' = ForecastOk(assembleForecast(isFuture, m, <<>>))
    /\ vcPc' = "resolved"
    /\ UNCHANGED <<isFuture, mainAnswer, histI, inFlight, histOutcomes,
                   historicalData>>
    /\ UNCHANGED <<httpVars, restVars>>

----------------------------------------------------------------------------
(* calculateTrend called on its own                                        *)

\* The series values are the integers -TrendValueBound .. TrendValueBound.
TrendValueBound == 2

\* The integer series of length 0 to 5.
TrendSeries ==
  UNION { [1..n -> (0 - TrendValueBound)..TrendValueBound] :
            n \in 0..HistoricalYears }

\* calculateTrend(series) is called and returns.
calculateTrendCall ==
  /\ trend = ""
  /\ trend' = calculateTrend(series)
  /\ UNCHANGED <<series, env, boot, exitCode, reqs, sideVars>>
  /\ UNCHANGED <<httpVars, vcVars>>

----------------------------------------------------------------------------
(* Process start-up: config.ts, then the server file                       *)

\* What process.env can hold for a key: nothing ("unset" stands for
\* undefined), the empty string, or a key.
EnvValues == {"unset", "", "key"}

\* process.env.X || ""
orEmpty(v) == IF v = "unset" \/ v = "" THEN "" ELSE v

\* config.ts lines 5-13.
config(e) ==
  [geminiApiKey |-> orEmpty(e.GEMINI_API_KEY),
   visualCrossingApiKey |-> orEmpty(e.VISUAL_CROSSING_API_KEY)]

\* Only the generative provider's key is checked.
configExit_GeminiOnly(cfg) ==
  IF cfg.geminiApiKey = "" THEN <<1>> ELSE <<>>

\* config.ts lines 15-30: the argument of the process.exit call made while
\* the module is evaluated, <<>> when none is made.
configExit(cfg) ==
  IF cfg.geminiApiKey = "" THEN <<1>>
  ELSE IF cfg.visualCrossingApiKey = "" THEN <<1>>
  ELSE <<>>

\* The server file imports config.ts, whose evaluation ends the process or
\* completes.
loadConfig ==
  /\ boot = "start"
  /\ exitCode' = configExit(config(env))
  /\ boot' = IF configExit(config(env)) # <<>> THEN "exited" ELSE "configLoaded"
  /\ UNCHANGED <<env, reqs, series, trend, sideVars>>
  /\ UNCHANGED <<httpVars, vcVars>>

\* The remaining imports and middleware are set up and app.listen(PORT) is
\* called.
listen ==
  /\ boot = "configLoaded"
  /\ boot' = "listening"
  /\ UNCHANGED <<env, exitCode, reqs, series, trend, sideVars>>
  /\ UNCHANGED <<httpVars, vcVars>>

\* A GET /api/weather request reaches the controller of the listening server.
requestArrives ==
  /\ boot = "listening"
  /\ pc = "idle"
  /\ query' \in [latitude : Latitudes, longitude : Longitudes, date : Dates]
  /\ pc' = "received"
  /\ UNCHANGED <<vcForecast, contentPromise, timeoutPromise, raceWinner,
                 adapterResult, responses, outbound>>
  /\ UNCHANGED <<vcVars, restVars>>

----------------------------------------------------------------------------
(* Requests served at the same time                                        *)

\* A query that passes every check of the controller.
ValidQuery ==
  [latitude  |-> Str(<<"1", "0">>),
   longitude |-> Str(<<"7", "6">>),
   date      |-> Str(<<"3", "0", "-", "0", "9", "-", "2", "0", "2", "6">>)]

\* How many requests are in the server at once.
ConcurrentRequests == 2

\* What one invocation of the handler holds: its req.query, its position,
\* the two promises its adapter call created, and its res.
RequestState(q) ==
  [query |-> q, pc |-> "received", contentPromise |-> NoPromise,
   timeoutPromise |-> NoPromise, raceWinner |-> "none",
   adapterResult |-> AdapterPending, responses |-> <<>>]

\* A query that passes the checks and one that fails the date check.
ConcurrentQueries ==
  { ValidQuery, [ValidQuery EXCEPT !.date = Str(<<"3", "0", "-", "9">>)] }

\* Lines 10-80 for request r: validation, then the adapter call of the
\* shared geminiService, which starts a timer and a provider call of its own.
getWeatherAnalysisFor(r) ==
  /\ reqs[r].pc = "received"
  /\ LET err == validationError(reqs[r].query)
     IN  reqs' = [reqs EXCEPT ![r] =
           IF err # ""
           THEN [@ EXCEPT !.responses =
                            Append(@, Response(400, err, NoObject, <<>>)),
                          !.pc = "done"]
           ELSE [@ EXCEPT !.pc = "awaiting",
                          !.timeoutPromise = Pending,
                          !.contentPromise = Pending]]
  /\ UNCHANGED <<httpVars, vcVars, bootVars, series, trend, sideVars>>

\* The adapter's result kept in the shared geminiService object: every
\* request waiting for its race is answered with the result that came in.
settleRaceFor_SharedResult(rs, r, winner, result) ==
  [i \in DOMAIN rs |->
     IF rs[i].pc = "awaiting"
     THEN [rs[i] EXCEPT !.raceWinner = winner,
                        !.adapterResult = result,
                        !.responses = Append(@, respond(result)),
                        !.pc = "done"]
     ELSE rs[i]]

\* The race of request r settles and its handler answers on its own res;
\* result, like the promises, is local to the adapter call of r.
settleRaceFor(rs, r, winner, result) ==
  [rs EXCEPT ![r] =
     IF @.pc = "awaiting"
     THEN [@ EXCEPT !.raceWinner = winner,
                    !.adapterResult = result,
                    !.responses = Append(@, respond(result)),
                    !.pc = "done"]
     ELSE @]

\* The provider call of request r resolves.
contentPromiseResolveFor(r) ==
  \E text \in Texts :
    /\ reqs[r].contentPromise.state = "pending"
    /\ reqs' = settleRaceFor(
                 [reqs EXCEPT ![r].contentPromise =
                    [@ EXCEPT !.state = "fulfilled", !.text = text]],
                 r, "content", parseResponse(text, NoForecast))
    /\ UNCHANGED <<httpVars, vcVars, bootVars, series, trend, sideVars>>

\* The provider call of request r rejects.
contentPromiseRejectFor(r) ==
  \E reason \in ProviderRejections :
    /\ reqs[r].contentPromise.state = "pending"
    /\ reqs' = settleRaceFor(
                 [reqs EXCEPT ![r].contentPromise =
                    [@ EXCEPT !.state = "rejected", !.reason = reason]],
                 r, "content", rethrow(reason))
    /\ UNCHANGED <<httpVars, vcVars, bootVars, series, trend, sideVars>>

\* The 60 s timer of request r fires.
timeoutPromiseRejectFor(r) ==
  /\ reqs[r].timeoutPromise.state = "pending"
  /\ reqs' = settleRaceFor(
               [reqs EXCEPT ![r].timeoutPromise = [@ EXCEPT !.state = "rejected"]],
               r, "timer", rethrow(TimeoutError))
  /\ UNCHANGED <<httpVars, vcVars, bootVars, series, trend, sideVars>>

----------------------------------------------------------------------------
(* HomePage: the page's state and handleQuerySubmit                        *)

\* The queries the form can hand to handleQuerySubmit, named by their
\* location.
FormQueries == {"HQ", "LA"}

\* How many times handleQuerySubmit is called.
MaxSubmits == 3

\* What fetchWeatherReport resolves with: the report carries the query, and
\* geminiData is optional in its type.
WeatherReport(q, hasData) == [query |-> q, geminiData |-> hasData]

\* What createHistoricalTrendFromData returns: the trend carries the
\* location of the report's query.
HistoricalTrend(variable, q) == [variable |-> variable, location |-> q]

\* What fetchWeatherReport rejects with (transformError), or what a trend
\* builder throws.  The query is kept to tell whose failure it is.
ApiError(name, q) == [error |-> name, query |-> q]

ApiErrors == {"Gateway Timeout", "Network Error"}

SetState(var, to) == [set |-> var, to |-> to]

RemoveAt(s, i) == SubSeq(s, 1, i - 1) \o SubSeq(s, i + 1, Len(s))

Last(s) == s[Len(s)]

\* Lines 37-49: the seven setters, batched by the event handler, and the
\* call of fetchWeatherReport.  isMounted is a local of the invocation; the
\* function that clears it is the resolved value of the promise
\* handleQuerySubmit returns, and nothing calls it.
handleQuerySubmit(q) ==
  /\ Len(submits) < MaxSubmits
  /\ loadingState' = "loading"
  /\ error' = <<>>
  /\ weatherReport' = <<>>
  /\ temperatureTrend' = <<>>
  /\ rainfallTrend' = <<>>
  /\ snowfallTrend' = <<>>
  /\ lastQuery' = <<q>>
  /\ fetches' = Append(fetches, [query |-> q, isMounted |-> TRUE])
  /\ submits' = Append(submits, q)
  /\ UNCHANGED setStates
  /\ UNCHANGED <<dateVars, pickerVars, backendVars>>

\* The form submitted although a request is pending.
onSubmit_WhileLoading(q) ==
  /\ setStates = <<>>
  /\ loadingState # "success"
  /\ handleQuerySubmit(q)

\* The form is rendered unless loadingState is "success", and its only
\* submit button is disabled while loadingState is "loading".
onSubmit(q) ==
  /\ setStates = <<>>
  /\ loadingState # "success"
  /\ loadingState # "loading"
  /\ handleQuerySubmit(q)

\* ErrorMessage is rendered in the error state with an error; its retry
\* button exists when lastQuery is set.
onRetry ==
  /\ setStates = <<>>
  /\ loadingState = "error"
  /\ error # <<>>
  /\ lastQuery # <<>>
  /\ handleQuerySubmit(lastQuery[1])

onDismiss ==
  /\ setStates = <<>>
  /\ loadingState = "error"
  /\ error # <<>>
  /\ loadingState' = "idle"
  /\ error' = <<>>
  /\ UNCHANGED <<weatherReport, temperatureTrend, rainfallTrend, snowfallTrend,
                 lastQuery, fetches, setStates, submits>>
  /\ UNCHANGED <<dateVars, pickerVars, backendVars>>

\* The New Query button without the three setters of the trends.
newQuery_KeepsTrends ==
  /\ setStates = <<>>
  /\ loadingState = "success"
  /\ weatherReport # <<>>
  /\ loadingState' = "idle"
  /\ weatherReport' = <<>>
  /\ error' = <<>>
  /\ UNCHANGED <<temperatureTrend, rainfallTrend, snowfallTrend,
                 lastQuery, fetches, setStates, submits>>
  /\ UNCHANGED <<dateVars, pickerVars, backendVars>>

\* The New Query button of the results section.
newQuery ==
  /\ setStates = <<>>
  /\ loadingState = "success"
  /\ weatherReport # <<>>
  /\ loadingState' = "idle"
  /\ weatherReport' = <<>>
  /\ temperatureTrend' = <<>>
  /\ rainfallTrend' = <<>>
  /\ snowfallTrend' = <<>>
  /\ error' = <<>>
  /\ UNCHANGED <<lastQuery, fetches, setStates, submits>>
  /\ UNCHANGED <<dateVars, pickerVars, backendVars>>

\* Lines 58-87 and 90-95: the setters called when geminiData is there.  The
\* builder number throwsAt throws (0: none does), and the catch block
\* follows.
trendSetStates(q, throwsAt) ==
  LET all    == << SetState("temperatureTrend", <<HistoricalTrend("Temperature", q)>>),
                   SetState("rainfallTrend", <<HistoricalTrend("Rainfall", q)>>),
                   SetState("snowfallTrend", <<HistoricalTrend("Snowfall", q)>>) >>
      caught == << SetState("error", <<ApiError("TypeError", q)>>),
                   SetState("loadingState", "error") >>
  IN  IF throwsAt = 0 THEN all ELSE SubSeq(all, 1, throwsAt - 1) \o caught

\* Lines 49-89: fetchWeatherReport resolves and the continuation starts.
\* Its setters are called outside an event handler, so each may be
\* rendered on its own; no other handler runs before the last.
fetchResolves(i, hasData, throwsAt) ==
  /\ setStates = <<>>
  /\ i \in 1..Len(fetches)
  /\ hasData \/ throwsAt = 0
  /\ fetches' = RemoveAt(fetches, i)
  /\ setStates' =
       IF ~fetches[i].isMounted THEN <<>>
       ELSE << SetState("weatherReport",
                        <<WeatherReport(fetches[i].query, hasData)>>),
               SetState("loadingState", "success") >>
            \o (IF hasData THEN trendSetStates(fetches[i].query, throwsAt)
                ELSE <<>>)
  /\ UNCHANGED <<loadingState, weatherReport, temperatureTrend, rainfallTrend,
                 snowfallTrend, error, lastQuery, submits>>
  /\ UNCHANGED <<dateVars, pickerVars, backendVars>>

\* Lines 90-95: fetchWeatherReport rejects.
fetchRejects(i, name) ==
  /\ setStates = <<>>
  /\ i \in 1..Len(fetches)
  /\ fetches' = RemoveAt(fetches, i)
  /\ setStates' =
       IF ~fetches[i].isMounted THEN <<>>
       ELSE << SetState("error", <<ApiError(name, fetches[i].query)>>),
               SetState("loadingState", "error") >>
  /\ UNCHANGED <<loadingState, weatherReport, temperatureTrend, rainfallTrend,
                 snowfallTrend, error, lastQuery, submits>>
  /\ UNCHANGED <<dateVars, pickerVars, backendVars>>

\* The next setter of the running continuation.
callSetState ==
  /\ setStates # <<>>
  /\ LET h == Head(setStates)
     IN  /\ loadingState' = IF h.set = "loadingState" THEN h.to ELSE loadingState
         /\ weatherReport' = IF h.set = "weatherReport" THEN h.to ELSE weatherReport
         /\ temperatureTrend' =
              IF h.set = "temperatureTrend" THEN h.to ELSE temperatureTrend
         /\ rainfallTrend' = IF h.set = "rainfallTrend" THEN h.to ELSE rainfallTrend
         /\ snowfallTrend' = IF h.set = "snowfallTrend" THEN h.to ELSE snowfallTrend
         /\ error' = IF h.set = "error" THEN h.to ELSE error
  /\ setStates' = Tail(setStates)
  /\ UNCHANGED <<lastQuery, fetches, submits>>
  /\ UNCHANGED <<dateVars, pickerVars, backendVars>>

----------------------------------------------------------------------------
(* The date from DatePicker to the controller                              *)

\* YEARS of DatePicker: 1980 to 2100.
FirstYear == 1980

LastYear == 2100

\* What DatePicker passes to onChange: a month of MONTHS, a day of the day
\* list, and a year of YEARS or undefined (0 here, which is as falsy).
DateQueries ==
  [month : 1..12, day : 1..31, year : {0} \cup FirstYear..LastYear]

\* The years the browser's clock may show.
ClockYears == {1999, 2026}

\* String(n) for a natural number n.
RECURSIVE String(_)
String(n) ==
  IF n < 10 THEN <<DigitChars[n + 1]>>
  ELSE String(n \div 10) \o <<DigitChars[(n % 10) + 1]>>

\* s.padStart(len, "0")
RECURSIVE padStart(_, _)
padStart(s, len) == IF Len(s) >= len THEN s ELSE padStart(<<"0">> \o s, len)

\* The date put together without padStart.
formatDate_Unpadded(d, now) ==
  String(d.day) \o <<"-">> \o String(d.month) \o <<"-">>
  \o String(IF d.year # 0 THEN d.year ELSE now)

\* fetchWeatherReport, lines 126-129: formattedDate.
formatDate(d, now) ==
  padStart(String(d.day), 2) \o <<"-">> \o padStart(String(d.month), 2)
  \o <<"-">> \o String(IF d.year # 0 THEN d.year ELSE now)

\* fetchWeatherReport formats the date of the query and sends the request.
fetchWeatherReport ==
  /\ formattedDate = <<>>
  /\ formattedDate' = formatDate(date, clockYear)
  /\ UNCHANGED <<date, clockYear, dateCheck>>
  /\ UNCHANGED <<homeVars, pickerVars, backendVars>>

\* The controller's checks on the request, the coordinates being valid.
checkDate ==
  /\ formattedDate # <<>>
  /\ dateCheck = ""
  /\ dateCheck' =
       LET err == validationError([ValidQuery EXCEPT !.date = Str(formattedDate)])
       IN  IF err = "" THEN "passed" ELSE err
  /\ UNCHANGED <<date, clockYear, formattedDate>>
  /\ UNCHANGED <<homeVars, pickerVars, backendVars>>

----------------------------------------------------------------------------
(* LocationPicker: clicks, the debounced reverse geocoding and onChange    *)

\* The location WeatherQueryForm starts with.
InitialLocation ==
  [type |-> "point", coordinates |-> "HQ",
   name |-> "Mary W Jackson, NASA Headquarters"]

\* The coordinates the user clicks on or drags the marker to.
MapPoints == {"P1", "P2"}

\* How many clicks and drags there are.
MaxPicks == 3

\* Lines 157-174: the effect that runs when the value prop has changed
\* moves the marker to the value's coordinates if it stands elsewhere.
syncMarker(m, v) ==
  IF v.type = "point" /\ m # v.coordinates THEN v.coordinates ELSE m

\* Lines 120-142: a click on the map moves the marker and calls
\* reverseGeocode, which clears the timer that has not fired and sets a new
\* one of 500 ms (lines 46-50).
mapClick(c) ==
  /\ isMountedRef
  /\ Len(picks) < MaxPicks
  /\ value.type = "point"
  /\ marker' = c
  /\ geocodeTimeoutRef' = <<c>>
  /\ picks' = Append(picks, c)
  /\ UNCHANGED <<value, onChangeCalls, geocodeFetches, geocodeRequests,
                 isMountedRef>>
  /\ UNCHANGED <<homeVars, dateVars, backendVars>>

\* Lines 111-117: the marker has been dragged to c; reverseGeocode is
\* called with the marker's position.
markerDragEnd(c) ==
  /\ isMountedRef
  /\ Len(picks) < MaxPicks
  /\ marker' = c
  /\ geocodeTimeoutRef' = <<c>>
  /\ picks' = Append(picks, c)
  /\ UNCHANGED <<value, onChangeCalls, geocodeFetches, geocodeRequests,
                 isMountedRef>>
  /\ UNCHANGED <<homeVars, dateVars, backendVars>>

\* Lines 50-54: 500 ms have passed and the request is sent.  The timer that
\* has fired is beyond the reach of clearTimeout.
geocodeTimerFires ==
  /\ geocodeTimeoutRef # <<>>
  /\ geocodeFetches' = Append(geocodeFetches, geocodeTimeoutRef[1])
  /\ geocodeRequests' = Append(geocodeRequests, geocodeTimeoutRef[1])
  /\ geocodeTimeoutRef' = <<>>
  /\ UNCHANGED <<value, onChangeCalls, marker, isMountedRef, picks>>
  /\ UNCHANGED <<homeVars, dateVars, backendVars>>

GeocodeOutcomes == {"place", "noFeatures", "error"}

\* Lines 55-71: a request settles.  With a place, and while mounted,
\* onChange is called with the coordinates the request was made for; the
\* parent stores the location, and the marker follows the new value.
geocodeSettles(i, outcome) ==
  /\ i \in 1..Len(geocodeFetches)
  /\ geocodeFetches' = RemoveAt(geocodeFetches, i)
  /\ IF isMountedRef /\ outcome = "place"
     THEN LET location == [type |-> "point",
                           coordinates |-> geocodeFetches[i],
                           name |-> "place"]
          IN  /\ onChangeCalls' = Append(onChangeCalls, location)
              /\ value' = location
              /\ marker' = syncMarker(marker, location)
     ELSE UNCHANGED <<onChangeCalls, value, marker>>
  /\ UNCHANGED <<geocodeTimeoutRef, geocodeRequests, isMountedRef, picks>>
  /\ UNCHANGED <<homeVars, dateVars, backendVars>>

\* Lines 29-34 and 144-154: the clean-up functions of the effects.
unmount ==
  /\ isMountedRef
  /\ isMountedRef' = FALSE
  /\ geocodeTimeoutRef' = <<>>
  /\ marker' = "removed"
  /\ UNCHANGED <<value, onChangeCalls, geocodeFetches, geocodeRequests, picks>>
  /\ UNCHANGED <<homeVars, dateVars, backendVars>>

----------------------------------------------------------------------------
(* Specifications                                                          *)

\* The process has started with both keys set and serves nothing else.
\* The clock is not read.
HomeIdle ==
  /\ loadingState = "idle"
  /\ weatherReport = <<>>
  /\ temperatureTrend = <<>>
  /\ rainfallTrend = <<>>
  /\ snowfallTrend = <<>>
  /\ error = <<>>
  /\ lastQuery = <<>>
  /\ fetches = <<>>
  /\ setStates = <<>>
  /\ submits = <<>>

DateIdle ==
  /\ date = [month |-> 1, day |-> 1, year |-> 0]
  /\ clockYear = 2026
  /\ formattedDate = <<>>
  /\ dateCheck = ""

PickerIdle ==
  /\ value = InitialLocation
  /\ onChangeCalls = <<>>
  /\ marker = InitialLocation.coordinates
  /\ geocodeTimeoutRef = <<>>
  /\ geocodeFetches = <<>>
  /\ geocodeRequests = <<>>
  /\ isMountedRef = TRUE
  /\ picks = <<>>

UiIdle == HomeIdle /\ DateIdle /\ PickerIdle

ClockIdle ==
  /\ currentDate = 0
  /\ timezoneOffset = 0
  /\ dateArg = 0

SideIdle == ClockIdle /\ UiIdle

ServerIdle ==
  /\ env = [GEMINI_API_KEY |-> "key", VISUAL_CROSSING_API_KEY |-> "key"]
  /\ boot = "listening"
  /\ exitCode = <<>>
  /\ reqs = <<>>
  /\ series = <<>>
  /\ trend = ""

RestIdle == SideIdle /\ ServerIdle

VcIdle ==
  /\ vcPc = "idle"
  /\ isFuture = FALSE
  /\ mainAnswer = <<>>
  /\ mainData = NoData
  /\ histI = 1
  /\ inFlight = {}
  /\ histOutcomes = <<>>
  /\ historicalData = <<>>
  /\ vcResult = ForecastPending

\* One GET /api/weather request has reached the controller, which passes no
\* forecast to the adapter.
Init ==
  /\ query \in [latitude : Latitudes, longitude : Longitudes, date : Dates]
  /\ vcForecast = NoForecast
  /\ pc = "received"
  /\ contentPromise = NoPromise
  /\ timeoutPromise = NoPromise
  /\ raceWinner = "none"
  /\ adapterResult = AdapterPending
  /\ responses = <<>>
  /\ outbound = <<>>
  /\ VcIdle
  /\ RestIdle

Next ==
  \/ getWeatherAnalysis
  \/ contentPromiseResolve
  \/ contentPromiseReject
  \/ timeoutPromiseReject

Spec == Init /\ [][Next]_vars

\* The request with the scheduling of the event loop: the handler of a
\* received request runs, and the 60 s timer, once set, fires.  The
\* provider call may stay pending for ever.
SpecLive ==
  /\ Init
  /\ [][Next]_vars
  /\ WF_vars(getWeatherAnalysis)
  /\ WF_vars(timeoutPromiseReject)

\* visualCrossingService.getStatisticalForecast(latitude, longitude, date)
\* has been called, for a date before or after the current time.
InitVC ==
  /\ query = ValidQuery
  /\ vcForecast = NoForecast
  /\ pc = "idle"
  /\ contentPromise = NoPromise
  /\ timeoutPromise = NoPromise
  /\ raceWinner = "none"
  /\ adapterResult = AdapterPending
  /\ responses = <<>>
  /\ outbound = <<>>
  /\ vcPc = "called"
  /\ isFuture \in BOOLEAN
  /\ mainAnswer = <<>>
  /\ mainData = NoData
  /\ histI = 1
  /\ inFlight = {}
  /\ histOutcomes = <<>>
  /\ historicalData = <<>>
  /\ vcResult = ForecastPending
  /\ RestIdle

NextVC ==
  \/ getStatisticalForecast
  \/ mainDataSettle
  \/ historicalFetchIssue
  \/ historicalFetchSettle
  \/ forecastReturn

SpecVC == InitVC /\ [][NextVC]_vars

\* Nothing is at the single-request handler.
HttpIdle ==
  /\ query = ValidQuery
  /\ vcForecast = NoForecast
  /\ pc = "idle"
  /\ contentPromise = NoPromise
  /\ timeoutPromise = NoPromise
  /\ raceWinner = "none"
  /\ adapterResult = AdapterPending
  /\ responses = <<>>
  /\ outbound = <<>>

\* ConcurrentRequests requests have reached the controller.
InitCC ==
  /\ HttpIdle
  /\ VcIdle
  /\ SideIdle
  /\ env = [GEMINI_API_KEY |-> "key", VISUAL_CROSSING_API_KEY |-> "key"]
  /\ boot = "listening"
  /\ exitCode = <<>>
  /\ reqs \in [1..ConcurrentRequests -> {RequestState(q) : q \in ConcurrentQueries}]
  /\ series = <<>>
  /\ trend = ""

NextCC ==
  \E r \in 1..ConcurrentRequests :
    \/ getWeatherAnalysisFor(r)
    \/ contentPromiseResolveFor(r)
    \/ contentPromiseRejectFor(r)
    \/ timeoutPromiseRejectFor(r)

SpecCC == InitCC /\ [][NextCC]_vars

\* The process is started with some environment.
InitBoot ==
  /\ HttpIdle
  /\ VcIdle
  /\ SideIdle
  /\ env \in [GEMINI_API_KEY : EnvValues, VISUAL_CROSSING_API_KEY : EnvValues]
  /\ boot = "start"
  /\ exitCode = <<>>
  /\ reqs = <<>>
  /\ series = <<>>
  /\ trend = ""

NextBoot ==
  \/ loadConfig
  \/ listen
  \/ requestArrives
  \/ Next

SpecBoot == InitBoot /\ [][NextBoot]_vars

\* calculateTrend is about to be called with an integer series.
InitTrend ==
  /\ HttpIdle
  /\ VcIdle
  /\ SideIdle
  /\ env = [GEMINI_API_KEY |-> "key", VISUAL_CROSSING_API_KEY |-> "key"]
  /\ boot = "listening"
  /\ exitCode = <<>>
  /\ reqs = <<>>
  /\ series \in TrendSeries
  /\ trend = ""

NextTrend == calculateTrendCall

SpecTrend == InitTrend /\ [][NextTrend]_vars

\* getStatisticalForecast is called for a day around the current one, the
\* clock standing somewhere in the UTC day 1.
InitDate ==
  /\ HttpIdle
  /\ vcPc = "dateGiven"
  /\ isFuture = FALSE
  /\ mainAnswer = <<>>
  /\ mainData = NoData
  /\ histI = 1
  /\ inFlight = {}
  /\ histOutcomes = <<>>
  /\ historicalData = <<>>
  /\ vcResult = ForecastPending
  /\ env = [GEMINI_API_KEY |-> "key", VISUAL_CROSSING_API_KEY |-> "key"]
  /\ boot = "listening"
  /\ exitCode = <<>>
  /\ reqs = <<>>
  /\ series = <<>>
  /\ trend = ""
  /\ currentDate \in DayTicks..(2 * DayTicks - 1)
  /\ timezoneOffset \in TimezoneOffsets
  /\ dateArg \in 0..3
  /\ UiIdle

NextDate ==
  \/ classifyTargetDate
  \/ placeTargetDay

SpecDate == InitDate /\ [][NextDate]_vars

\* One call of either entry point: a request at the controller, or
\* getStatisticalForecast called directly.
InitCalls == Init \/ InitVC

NextCalls == Next \/ NextVC

SpecCalls == InitCalls /\ [][NextCalls]_vars

\* What a caller can pass as vcForecast: nothing, or a forecast that
\* getStatisticalForecast returned.
SuppliedForecasts ==
  {NoForecast} \cup
  { assembleForecast(f, m, h) :
      f \in BOOLEAN, m \in SuppliedMain, h \in SuppliedHistory }

\* geminiService.getWeatherAnalysis(query, vcForecast) has been called
\* with a valid query, with or without a forecast.
InitGA ==
  /\ query = ValidQuery
  /\ vcForecast \in SuppliedForecasts
  /\ pc = "adapterCalled"
  /\ contentPromise = NoPromise
  /\ timeoutPromise = NoPromise
  /\ raceWinner = "none"
  /\ adapterResult = AdapterPending
  /\ responses = <<>>
  /\ outbound = <<>>
  /\ VcIdle
  /\ RestIdle

NextGA ==
  \/ geminiGetWeatherAnalysis
  \/ contentPromiseResolve
  \/ contentPromiseReject
  \/ timeoutPromiseReject

SpecGA == InitGA /\ [][NextGA]_vars

----------------------------------------------------------------------------
(* Specifications of the browser side                                      *)

\* The page after its first render.
InitHome == HttpIdle /\ VcIdle /\ RestIdle

NextHome ==
  \/ \E q \in FormQueries : onSubmit(q)
  \/ onRetry
  \/ onDismiss
  \/ newQuery
  \/ \E i \in 1..MaxSubmits, hasData \in BOOLEAN, throwsAt \in 0..3 :
       fetchResolves(i, hasData, throwsAt)
  \/ \E i \in 1..MaxSubmits, name \in ApiErrors : fetchRejects(i, name)
  \/ callSetState

SpecHome == InitHome /\ [][NextHome]_vars

\* Any date DatePicker can report, about to be sent.
InitFormat ==
  /\ HttpIdle
  /\ VcIdle
  /\ ServerIdle
  /\ ClockIdle
  /\ HomeIdle
  /\ PickerIdle
  /\ date \in DateQueries
  /\ clockYear \in ClockYears
  /\ formattedDate = <<>>
  /\ dateCheck = ""

NextFormat == fetchWeatherReport \/ checkDate

SpecFormat == InitFormat /\ [][NextFormat]_vars

\* The picker after its first render.
InitPicker == HttpIdle /\ VcIdle /\ RestIdle

NextPicker ==
  \/ \E c \in MapPoints : mapClick(c)
  \/ \E c \in MapPoints : markerDragEnd(c)
  \/ geocodeTimerFires
  \/ \E i \in 1..MaxPicks, outcome \in GeocodeOutcomes : geocodeSettles(i, outcome)
  \/ unmount

SpecPicker == InitPicker /\ [][NextPicker]_vars

----------------------------------------------------------------------------
(* Properties of the HTTP request (Spec)                                   *)

Answered == responses # <<>>

InRange(v, lo, hi) ==
  v.kind = "number" /\ lo * v.den <= v.num /\ v.num <= hi * v.den

\* The five checks of the controller, each taken on its own.
CheckHolds(i, q) ==
  CASE i = 1 -> \A v \in {q.latitude, q.longitude, q.date} :
                  v.type # "undefined" /\ v # Str(<<>>)
    [] i = 2 -> \A v \in {q.latitude, q.longitude, q.date} : v.type = "string"
    [] i = 3 -> q.date.type = "string" /\ dateRegex(q.date.chars)
    [] i = 4 -> /\ q.latitude.type = "string"
                /\ InRange(parseFloat(q.latitude.chars), -90, 90)
    [] i = 5 -> /\ q.longitude.type = "string"
                /\ InRange(parseFloat(q.longitude.chars), -180, 180)

FailingChecks(q) == {i \in 1..5 : ~CheckHolds(i, q)}

CheckErrors ==
  <<"Missing required parameters", "Invalid parameter types",
    "Invalid date format", "Invalid latitude", "Invalid longitude">>

Validated == FailingChecks(query) = {}

\* C1: once the handler has run its checks, a request with a failing check
\* has been answered with HTTP 400 whose error names the failing check of
\* least number, and a request with no failing check has no 400 answer.
C1_FirstFailingCheck ==
  pc # "received" =>
    IF FailingChecks(query) = {}
    THEN \A i \in 1..Len(responses) : responses[i].status # 400
    ELSE /\ Len(responses) = 1
         /\ responses[1].status = 400
         /\ \E i \in FailingChecks(query) :
              /\ \A j \in FailingChecks(query) : i <= j
              /\ responses[1].error = CheckErrors[i]

\* A request whose date and latitude are both bad was answered with the
\* date error.
C1_Witness ==
  /\ Answered
  /\ {3, 4} \subseteq FailingChecks(query)
  /\ ~(\E i \in {1, 2} : i \in FailingChecks(query))
  /\ responses[1].error = "Invalid date format"

\* C2: a validated request that has been answered got 200 with the
\* adapter's object, 504 for an adapter error whose message contains
\* "timeout", 500 for any other adapter error, and never 400.
C2_ValidatedStatus ==
  (Validated /\ Answered) =>
    /\ Len(responses) = 1
    /\ adapterResult.kind \in {"ok", "error"}
    /\ adapterResult.kind = "ok" =>
         responses[1].status = 200 /\ responses[1].body = adapterResult.value
    /\ (adapterResult.kind = "error" /\ includesTimeout(adapterResult.message)) =>
         responses[1].status = 504
    /\ (adapterResult.kind = "error" /\ ~includesTimeout(adapterResult.message)) =>
         responses[1].status = 500
    /\ responses[1].status # 400

\* A provider failure that is not a timeout was answered with 500.
C2_Witness ==
  /\ Validated
  /\ Answered
  /\ contentPromise.state = "rejected"
  /\ raceWinner = "content"
  /\ ~includesTimeout(adapterResult.message)
  /\ responses[1].status = 500

ParsedText(text) == JSONparse(stripFences(text))

ParseFails(text) == text # <<"throws">> /\ ParsedText(text).type = "none"

FieldMissing(text) ==
  /\ ParsedText(text).type = "object"
  /\ \/ ParsedText(text).overall_comfortability_score # "object"
     \/ ParsedText(text).activities # "object"

\* C3: when the timer wins the race the adapter's error differs from the
\* parse error and from the missing-field error and the answer is 504; when
\* the provider's text wins and does not parse or lacks a required field the
\* answer is 500.
C3_TimeoutDistinguished ==
  /\ raceWinner = "timer" =>
       /\ adapterResult.kind = "error"
       /\ adapterResult.message \notin {InvalidJsonMessage, InvalidStructureMessage}
       /\ Len(responses) = 1
       /\ responses[1].status = 504
  /\ ( /\ raceWinner = "content"
       /\ contentPromise.state = "fulfilled"
       /\ ParseFails(contentPromise.text) \/ FieldMissing(contentPromise.text) ) =>
       /\ adapterResult.kind = "error"
       /\ Len(responses) = 1
       /\ responses[1].status = 500

\* The timer won while the provider call was still pending.
C3_Witness ==
  /\ raceWinner = "timer"
  /\ contentPromise.state = "pending"
  /\ Answered
  /\ responses[1].status = 504

\* C4: a timer that fires while the race is open makes the call fail with
\* the timeout error and leaves the provider call pending; once the call has
\* settled, no later event changes the winner, the adapter's result or the
\* answer.
C4_RaceIsFinal ==
  [][ /\ ( /\ pc = "awaiting"
           /\ timeoutPromise.state = "pending"
           /\ timeoutPromise'.state = "rejected" ) =>
           /\ adapterResult' = AdapterError(TimeoutMessage)
           /\ raceWinner' = "timer"
           /\ contentPromise' = contentPromise
           /\ contentPromise.state = "pending"
      /\ pc = "done" =>
           /\ raceWinner' = raceWinner
           /\ adapterResult' = adapterResult
           /\ responses' = responses
           /\ pc' = "done" ]_vars

\* The provider call resolved with a usable document after the timer had
\* won, and the answer is still the timeout.
C4_Witness ==
  /\ raceWinner = "timer"
  /\ contentPromise.state = "fulfilled"
  /\ contentPromise.text = <<"{full}">>
  /\ adapterResult = AdapterError(TimeoutMessage)
  /\ Len(responses) = 1
  /\ responses[1].status = 504

\* C5 (as claimed): every validated request that has been answered had the
\* target-date weather fetch issued for it.
C5_TargetFetchIssued ==
  (Validated /\ Answered) =>
    \E i \in 1..Len(outbound) : outbound[i] = "fetchWeatherData"

----------------------------------------------------------------------------
(* Properties of getStatisticalForecast (SpecVC)                           *)

\* A fetch that succeeded with a non-empty days array.
Usable(a) == a.kind = "answer" /\ a.days # <<>>

\* The first days of the usable answers of outs, in the order of outs.
FirstDays(outs) ==
  LET good == {i \in 1..Len(outs) : Usable(outs[i])}
      nth(j) == CHOOSE i \in good :
                  Cardinality({k \in good : k < i}) = j - 1
  IN  [j \in 1..Cardinality(good) |-> outs[nth(j)].days[1]]

\* C6: getHistoricalData never raises and its list is, at every moment,
\* the first days of the usable answers so far, in the order the fetches
\* were issued; at the return all five fetches have been consumed and the
\* list has between 0 and 5 elements.
C6_HistoricalFailOpen ==
  /\ historicalData = FirstDays(histOutcomes)
  /\ Len(historicalData) <= HistoricalYears
  /\ vcPc = "rejected" => histOutcomes = <<>>
  /\ vcPc = "resolved" =>
       /\ Len(histOutcomes) = HistoricalYears
       /\ vcResult.kind = "ok"
       /\ vcResult.value.past5Years = FirstDays(histOutcomes)

\* A return after a failed, an empty and a two-day answer.
C6_Witness ==
  /\ vcPc = "resolved"
  /\ Len(histOutcomes) = HistoricalYears
  /\ histOutcomes[1].kind = "axiosError"
  /\ histOutcomes[2] = Answer(<<>>)
  /\ histOutcomes[3].kind = "noDaysArray"
  /\ Len(histOutcomes[4].days) = 2
  /\ Len(histOutcomes[5].days) = 1
  /\ Len(historicalData) = 2

\* C7: at most one fetch is in flight; while the fetch for targetYear - k is
\* in flight exactly the k - 1 earlier ones have completed or failed; and
\* the call returns only after all five were issued, whatever failed.
C7_SequentialFetches ==
  /\ Cardinality(inFlight) <= 1
  /\ \A k \in inFlight \ {0} : k = histI /\ Len(histOutcomes) = k - 1
  /\ 0 \in inFlight => histOutcomes = <<>>
  /\ vcPc = "resolved" => Len(histOutcomes) = HistoricalYears /\ inFlight = {}

\* The third fetch is in flight after the second one failed.
C7_Witness ==
  /\ inFlight = {3}
  /\ Len(histOutcomes) = 2
  /\ histOutcomes[2].kind = "axiosError"

\* C8: the call rejects exactly when the target-date fetch failed, then
\* without a result; after a successful target-date fetch it never rejects
\* and returns a forecast, also when all five historical fetches fail.
C8_RejectsIffTargetFails ==
  /\ vcPc = "rejected" <=> (mainAnswer # <<>> /\ mainAnswer[1].kind # "answer")
  /\ vcPc = "rejected" => vcResult = ForecastError(vcResult.message)
  /\ vcPc = "resolved" => vcResult.kind = "ok" /\ vcResult.value.present
  /\ (mainAnswer # <<>> /\ mainAnswer[1].kind = "answer") =>
       vcPc \in {"histLoop", "histAwait", "resolved"}

\* A forecast was returned although all five historical fetches failed.
C8_Witness ==
  /\ vcPc = "resolved"
  /\ vcResult.kind = "ok"
  /\ Len(histOutcomes) = HistoricalYears
  /\ \A i \in 1..HistoricalYears : histOutcomes[i].kind # "answer"

\* C9 (as claimed): when the years targetYear-5 .. targetYear-1 have the
\* temperatures 10, 12, 14, 16, 18, the statistics are mean 14, min 10,
\* max 18, variance 8, standard deviation 2.83 and trend "Increasing".
C9_RisingSeriesIncreasing ==
  ( /\ vcPc = "resolved"
    /\ Len(histOutcomes) = HistoricalYears
    /\ \A i \in 1..HistoricalYears :
         /\ Len(histOutcomes[i].days) = 1
         /\ histOutcomes[i].days[1].temp = 20 - 2 * i ) =>
    /\ vcResult.value.statistics.temperatureStats =
         [mean |-> 1400, min |-> 1000, max |-> 1800, standardDeviation |-> 283]
    /\ Variance([i \in 1..5 |-> vcResult.value.past5Years[i].temp]) =
         [num |-> 8 * 25, den |-> 25]
    /\ vcResult.value.statistics.trends.temperatureTrend = "Increasing"

\* C10: a forecast returned for an empty historical list has all-zero
\* temperature and precipitation statistics, both trends "Stable" and
\* all-zero monthly averages.
C10_EmptyListDefaults ==
  (vcPc = "resolved" /\ historicalData = <<>>) =>
    /\ vcResult.kind = "ok"
    /\ vcResult.value.statistics.temperatureStats =
         [mean |-> 0, min |-> 0, max |-> 0, standardDeviation |-> 0]
    /\ vcResult.value.statistics.precipitationStats =
         [totalMean |-> 0, probability |-> 0, maxRecorded |-> 0]
    /\ vcResult.value.statistics.trends =
         [temperatureTrend |-> "Stable", precipitationTrend |-> "Stable"]
    /\ vcResult.value.monthlyAverages =
         [temperature |-> 0, precipitation |-> 0, humidity |-> 0, windspeed |-> 0]

\* A forecast was returned after five fetches that gave no usable day.
C10_Witness ==
  /\ vcPc = "resolved"
  /\ historicalData = <<>>
  /\ Len(histOutcomes) = HistoricalYears
  /\ vcResult.value.past5Years = <<>>
  /\ vcResult.value.statistics.trends.precipitationTrend = "Stable"

\* C11: a forecast returned for a historical list of one day has standard
\* deviation 0, mean, min and max all equal to that day's temp, and both
\* trends "Stable".
C11_SingleElementStatistics ==
  (vcPc = "resolved" /\ Len(historicalData) = 1) =>
    /\ vcResult.kind = "ok"
    /\ vcResult.value.statistics.temperatureStats =
         [mean |-> 100 * historicalData[1].temp,
          min  |-> 100 * historicalData[1].temp,
          max  |-> 100 * historicalData[1].temp,
          standardDeviation |-> 0]
    /\ vcResult.value.statistics.trends =
         [temperatureTrend |-> "Stable", precipitationTrend |-> "Stable"]

\* A forecast was returned after one usable answer, a wet day of 14 degrees.
C11_Witness ==
  /\ vcPc = "resolved"
  /\ Len(historicalData) = 1
  /\ historicalData[1].temp = 14
  /\ historicalData[1].precip > 0
  /\ vcResult.value.statistics.temperatureStats.standardDeviation = 0

\* The days of the returned list that had precipitation.
WetDays == {i \in 1..Len(historicalData) : historicalData[i].precip > 0}

\* C12: a forecast returned for a non-empty historical list has a
\* precipitation probability between 0 and 100 that is 100 * (days with
\* precip > 0) / N to the nearest hundredth; when every precip is 0 the
\* probability, totalMean and maxRecorded are 0 and the precipitation trend
\* is "Stable".
C12_PrecipitationProbability ==
  (vcPc = "resolved" /\ Len(historicalData) >= 1) =>
    LET n == Len(historicalData)
        p == vcResult.value.statistics.precipitationStats
        e == p.probability * n - 10000 * Cardinality(WetDays)
    IN  /\ 0 <= p.probability /\ p.probability <= 10000
        /\ 2 * e <= n /\ 0 - n <= 2 * e
        /\ WetDays = {} =>
             /\ p = [totalMean |-> 0, probability |-> 0, maxRecorded |-> 0]
             /\ vcResult.value.statistics.trends.precipitationTrend = "Stable"

\* A forecast was returned for five dry days.
C12_Witness ==
  /\ vcPc = "resolved"
  /\ Len(historicalData) = HistoricalYears
  /\ WetDays = {}
  /\ vcResult.value.statistics.precipitationStats.probability = 0

\* C13 (as claimed): in a returned forecast exactly one of current and
\* forecast holds the fetched target-date day, under forecast when the
\* target date is after the request time and under current otherwise; the
\* two are never both populated and never both null.
C13_ExactlyOneOfCurrentForecast ==
  vcPc = "resolved" =>
    /\ (vcResult.value.current # <<>>) # (vcResult.value.forecast # <<>>)
    /\ isFuture => vcResult.value.forecast = <<mainData.days[1]>>
    /\ ~isFuture => vcResult.value.current = <<mainData.days[1]>>

\* C13 (amended): in a returned forecast current and forecast are never both
\* populated; when the target-date answer held a day, that day is under
\* forecast if the target date is after the request time and under current
\* otherwise, and the other field is null; when the answer held no day,
\* both fields are null.
C13_AtMostOneOfCurrentForecast ==
  vcPc = "resolved" =>
    /\ ~(vcResult.value.current # <<>> /\ vcResult.value.forecast # <<>>)
    /\ (mainData.days # <<>> /\ isFuture) =>
         /\ vcResult.value.forecast = <<mainData.days[1]>>
         /\ vcResult.value.current = <<>>
    /\ (mainData.days # <<>> /\ ~isFuture) =>
         /\ vcResult.value.current = <<mainData.days[1]>>
         /\ vcResult.value.forecast = <<>>
    /\ mainData.days = <<>> =>
         vcResult.value.current = <<>> /\ vcResult.value.forecast = <<>>

\* A forecast for a future date was returned with the fetched day under
\* forecast.
C13_Witness ==
  /\ vcPc = "resolved"
  /\ isFuture
  /\ mainAnswer = <<Answer(<<Day(15, 1, 70, 12)>>)>>
  /\ vcResult.value.forecast = <<Day(15, 1, 70, 12)>>
  /\ vcResult.value.current = <<>>

----------------------------------------------------------------------------
(* Properties of GeminiService.getWeatherAnalysis called directly (SpecGA) *)

\* The provider's text won the race, parsed and has both required fields.
ParsedAndValidated ==
  /\ raceWinner = "content"
  /\ contentPromise.state = "fulfilled"
  /\ ParsedText(contentPromise.text).type = "object"
  /\ ~FieldMissing(contentPromise.text)

\* C14 (as claimed): when a forecast was supplied and the response parsed
\* and validated, the returned object carries a visual_crossing_data block;
\* when none was supplied the returned object is the parsed response.
C14_BlockForEverySuppliedForecast ==
  ParsedAndValidated =>
    /\ adapterResult.kind = "ok"
    /\ vcForecast.present => Len(adapterResult.value.visual_crossing_data) = 1
    /\ ~vcForecast.present =>
         adapterResult.value = ParsedText(contentPromise.text)

\* C14 (amended): when a forecast holding a target day (current or forecast
\* not null) was supplied and the response parsed and validated, the
\* returned object is the parsed response with one visual_crossing_data
\* block of source, location, actualData, historicalAverages and
\* statistics; when no forecast was supplied, or one whose current and
\* forecast are both null, the returned object is the parsed response.
C14_BlockForForecastWithDay ==
  ParsedAndValidated =>
    LET hasDay == /\ vcForecast.present
                  /\ vcForecast.current # <<>> \/ vcForecast.forecast # <<>>
        parsed == ParsedText(contentPromise.text)
    IN  /\ adapterResult.kind = "ok"
        /\ hasDay =>
             /\ Len(adapterResult.value.visual_crossing_data) = 1
             /\ DOMAIN adapterResult.value.visual_crossing_data[1] =
                  {"source", "location", "actualData", "historicalAverages",
                   "statistics"}
             /\ [adapterResult.value EXCEPT !.visual_crossing_data = <<>>]
                  = parsed
        /\ ~hasDay => adapterResult.value = parsed

\* The adapter returned an object with the block for a supplied forecast
\* of a future date.
C14_Witness ==
  /\ pc = "adapterDone"
  /\ ParsedAndValidated
  /\ vcForecast.present
  /\ vcForecast.forecast # <<>>
  /\ adapterResult.kind = "ok"
  /\ Len(adapterResult.value.visual_crossing_data) = 1
  /\ adapterResult.value.visual_crossing_data[1].source =
       "Visual Crossing Weather API"

\* The measurements the adapter copies, as <<name in actualData, name in the
\* day>>.
RenamedFields ==
  { <<"temperature", "temp">>, <<"temperatureMax", "tempmax">>,
    <<"temperatureMin", "tempmin">>, <<"feelsLike", "feelslike">>,
    <<"humidity", "humidity">>, <<"precipitation", "precip">>,
    <<"precipitationProbability", "precipprob">>, <<"snow", "snow">>,
    <<"snowDepth", "snowdepth">>, <<"windSpeed", "windspeed">>,
    <<"windGust", "windgust">>, <<"cloudCover", "cloudcover">>,
    <<"uvIndex", "uvindex">>, <<"visibility", "visibility">>,
    <<"pressure", "pressure">>, <<"conditions", "conditions">>,
    <<"description", "description">> }

\* C15: for a supplied forecast with current populated and forecast null
\* and a response that parsed and validated, actualData has exactly the
\* seventeen renamed measurements, each equal to the measurement of current
\* it is named after, and historicalAverages and statistics are the
\* forecast's monthlyAverages and statistics.
C15_ActualDataEqualsCurrent ==
  ( /\ ParsedAndValidated
    /\ vcForecast.present
    /\ vcForecast.current # <<>>
    /\ vcForecast.forecast = <<>> ) =>
    /\ adapterResult.kind = "ok"
    /\ Len(adapterResult.value.visual_crossing_data) = 1
    /\ LET block == adapterResult.value.visual_crossing_data[1]
       IN  /\ DOMAIN block.actualData = {f[1] : f \in RenamedFields}
           /\ \A f \in RenamedFields :
                block.actualData[f[1]] = vcForecast.current[1][f[2]]
           /\ block.historicalAverages = vcForecast.monthlyAverages
           /\ block.statistics = vcForecast.statistics

\* The adapter returned the block for a forecast of a past date with two
\* historical days; the felt temperature differs from the temperature.
C15_Witness ==
  /\ pc = "adapterDone"
  /\ ParsedAndValidated
  /\ vcForecast.present
  /\ vcForecast.current = <<Day(15, 1, 70, 12)>>
  /\ vcForecast.forecast = <<>>
  /\ Len(vcForecast.past5Years) = 2
  /\ adapterResult.kind = "ok"
  /\ adapterResult.value.visual_crossing_data[1].actualData.feelsLike = 14
  /\ adapterResult.value.visual_crossing_data[1].actualData.temperature = 15

----------------------------------------------------------------------------
(* Properties of the adapter's failures (Spec)                             *)

\* The text parses to a document in which a required field is absent.
LacksField(text) ==
  /\ text # <<"throws">>
  /\ ParsedText(text).type # "none"
  /\ \/ ParsedText(text).overall_comfortability_score = "absent"
     \/ ParsedText(text).activities = "absent"

\* C16 (as claimed): when the provider's text won the race, a text that
\* does not parse makes the adapter fail with the invalid-JSON error, a
\* text that parses but lacks overall_comfortability_score or activities
\* makes it fail with the invalid-structure error, and in both cases no
\* result is returned; every settled adapter call that is not a result is
\* an error with a message.
C16_DescriptiveFailures ==
  /\ ( /\ raceWinner = "content"
       /\ contentPromise.state = "fulfilled"
       /\ ParseFails(contentPromise.text) ) =>
       adapterResult = AdapterError(InvalidJsonMessage)
  /\ ( /\ raceWinner = "content"
       /\ contentPromise.state = "fulfilled"
       /\ LacksField(contentPromise.text) ) =>
       adapterResult = AdapterError(InvalidStructureMessage)
  /\ (pc = "done" /\ Validated /\ adapterResult.kind # "ok") =>
       adapterResult.kind = "error" /\ adapterResult.message # <<>>

----------------------------------------------------------------------------
(* Properties of the outbound calls (SpecCalls)                            *)

\* How often the outbound call named c has been made.
Calls(c) == Cardinality({i \in 1..Len(outbound) : outbound[i] = c})

\* C17: at every moment, also after a timeout, a rejected or failed call or
\* a malformed response, the generative endpoint has been called at most
\* once and the target-date fetch has been issued at most once; a request
\* that was validated called the generative endpoint exactly once and a
\* call of getStatisticalForecast issued the target-date fetch exactly once.
C17_NoRetry ==
  /\ Calls("generateContent") <= 1
  /\ Calls("fetchWeatherData") <= 1
  /\ (pc = "done" /\ Validated) => Calls("generateContent") = 1
  /\ vcPc \in {"rejected", "resolved"} => Calls("fetchWeatherData") = 1

\* The provider call was rejected, the request was answered with an error
\* and the endpoint was called once.
C17_Witness ==
  /\ pc = "done"
  /\ contentPromise.state = "rejected"
  /\ raceWinner = "content"
  /\ adapterResult.kind = "error"
  /\ responses # <<>>
  /\ Calls("generateContent") = 1

----------------------------------------------------------------------------
(* Properties of requests served at the same time (SpecCC)                 *)

\* The answers a request with the query, the settled promises and the race
\* winner of rec gets when it is the only request in the server.
ServedAlone(rec) ==
  IF rec.pc = "received" THEN <<>>
  ELSE IF validationError(rec.query) # ""
  THEN <<Response(400, validationError(rec.query), NoObject, <<>>)>>
  ELSE IF rec.raceWinner = "timer"
  THEN <<respond(rethrow(TimeoutError))>>
  ELSE IF rec.raceWinner = "content" /\ rec.contentPromise.state = "fulfilled"
  THEN <<respond(parseResponse(rec.contentPromise.text, NoForecast))>>
  ELSE IF rec.raceWinner = "content" /\ rec.contentPromise.state = "rejected"
  THEN <<respond(rethrow(rec.contentPromise.reason))>>
  ELSE IF rec.raceWinner = "none" /\ rec.pc = "awaiting" THEN <<>>
  ELSE <<Response(0, "", NoObject, <<>>)>>

\* C18: in every interleaving of the requests, the answers of each request
\* are those it gets when served alone with the same query and the same
\* provider outcome, and no step changes the values of more than one
\* request.
C18_RequestsIndependent ==
  /\ [](\A r \in DOMAIN reqs : reqs[r].responses = ServedAlone(reqs[r]))
  /\ [][\A r \in DOMAIN reqs :
          reqs'[r] # reqs[r] =>
            \A o \in DOMAIN reqs \ {r} : reqs'[o] = reqs[o]]_vars

\* Two requests with the same query: the second was answered 200 while the
\* first, which later timed out, was still waiting.
C18_Witness ==
  /\ Len(reqs) = ConcurrentRequests
  /\ reqs[1].query = reqs[2].query
  /\ reqs[1].pc = "done"
  /\ reqs[1].raceWinner = "timer"
  /\ reqs[1].responses[1].status = 504
  /\ reqs[2].pc = "done"
  /\ reqs[2].responses[1].status = 200
  /\ reqs[2].timeoutPromise.state = "pending"

----------------------------------------------------------------------------
(* Properties of the start-up (SpecBoot)                                   *)

KeyAbsent(v) == v = "unset" \/ v = ""

----------------------------------------------------------------------------
(* Properties of calculateTrend (SpecTrend)                                *)

\* The least-squares slope of values against the indices 0..n-1 from its
\* definition, sum((x - mean x)(y - mean y)) / sum((x - mean x)^2), both
\* sums multiplied by n * n; n >= 2.
ReferenceSlope(values) ==
  LET n  == Len(values)
      sx == SumSeq([i \in 1..n |-> i - 1])
      sy == SumSeq(values)
  IN  [num |-> SumSeq([i \in 1..n |->
                         (n * (i - 1) - sx) * (n * values[i] - sy)]),
       den |-> SumSeq([i \in 1..n |->
                         (n * (i - 1) - sx) * (n * (i - 1) - sx)])]

\* C20: the value calculateTrend returned for an integer series of length
\* 0 to 5 is "Stable" when the series has fewer than two values, and
\* otherwise "Increasing" when the reference least-squares slope is above
\* 0.1, "Decreasing" when it is below -0.1 and "Stable" when it is between
\* -0.1 and 0.1 inclusive.
C20_TrendFollowsSlope ==
  trend # "" =>
    IF Len(series) < 2 THEN trend = "Stable"
    ELSE LET slope == ReferenceSlope(series)
         IN  /\ slope.den > 0
             /\ trend = "Increasing" <=> 10 * slope.num > slope.den
             /\ trend = "Decreasing" <=> 10 * slope.num < 0 - slope.den
             /\ trend = "Stable" <=>
                  /\ 0 - slope.den <= 10 * slope.num
                  /\ 10 * slope.num <= slope.den

\* A series of five values whose slope is exactly 0.1 was classified
\* "Stable".
C20_Witness ==
  /\ series = <<0, 0, 0, 1, 0>>
  /\ 10 * ReferenceSlope(series).num = ReferenceSlope(series).den
  /\ trend = "Stable"

----------------------------------------------------------------------------
(* Further properties of getStatisticalForecast (SpecVC)                   *)

\* C21: for the historical list built so far, of length 0 to 5, every
\* divisor calculateStatistics and calculateTrend divide by is at least 1:
\* the empty list meets no division, the mean, variance and probability
\* divisors are N >= 1, and for N >= 2 the slope denominator is positive.
C21_NoDivisionByZero ==
  LET ds == statisticsDivisors(historicalData)
      n  == Len(historicalData)
  IN  /\ n <= HistoricalYears
      /\ \A i \in 1..Len(ds) : ds[i] >= 1
      /\ n = 0 => ds = <<>>
      /\ n >= 1 => Len(ds) >= 4 /\ \A i \in 1..4 : ds[i] = n
      /\ n >= 2 => Len(ds) = 6 /\ ds[5] > 0 /\ ds[6] > 0

\* The statistics were computed for five days with the slope divisor 50.
C21_Witness ==
  /\ vcPc = "resolved"
  /\ Len(historicalData) = HistoricalYears
  /\ statisticsDivisors(historicalData) = <<5, 5, 5, 5, 50, 50>>
  /\ vcResult.kind = "ok"

----------------------------------------------------------------------------
(* Further properties of the HTTP request (Spec)                           *)

\* The tokens of text that are neither a fence, the word json nor white
\* space.
RECURSIVE Unwrapped(_)
Unwrapped(text) ==
  IF text = <<>> THEN <<>>
  ELSE IF Head(text) = Fence \/ Head(text) = "json" \/ IsWhiteSpace(Head(text))
       THEN Unwrapped(Tail(text))
       ELSE <<Head(text)>> \o Unwrapped(Tail(text))

\* text is one JSON document between an opening fence, with or without the
\* word json, and a closing fence, with any white space around and between.
FencedDocument(text) ==
  LET t == trim(text)
  IN  /\ Len(t) >= 3
      /\ t[1] = Fence /\ t[Len(t)] = Fence
      /\ Len(Unwrapped(t)) = 1
      /\ Unwrapped(t)[1] \in DocumentTokens
      /\ \A i \in 2..(Len(t) - 1) : t[i] # Fence
      /\ \A i \in 3..(Len(t) - 1) : t[i] # "json"

\* C22 (as claimed): when the provider's text won the race, a document
\* wrapped in fences, with or without line breaks between the fences and
\* the document, gives the adapter result of the unwrapped document, and a
\* text without fences gives the result of parsing it as it is.
C22_FencesStripped ==
  ( /\ raceWinner = "content"
    /\ contentPromise.state = "fulfilled"
    /\ contentPromise.text # <<"throws">> ) =>
    IF FencedDocument(contentPromise.text)
    THEN adapterResult =
           parseResponse(Unwrapped(contentPromise.text), vcForecast)
    ELSE ParsedText(contentPromise.text) = JSONparse(contentPromise.text)

----------------------------------------------------------------------------
(* Properties of the future/current classification (SpecDate)              *)

\* Today's date on the wall clock of the request, in days.
Today == (currentDate + timezoneOffset) \div DayTicks

\* C23 (as claimed): a fetched day for a target date that is today or an
\* earlier day is placed under current, and one for a later day under
\* forecast.
C23_TodayIsCurrent ==
  (vcPc = "resolved" /\ mainData.days # <<>>) =>
    /\ dateArg <= Today =>
         /\ ~isFuture
         /\ vcResult.value.current = <<mainData.days[1]>>
         /\ vcResult.value.forecast = <<>>
    /\ dateArg > Today =>
         /\ isFuture
         /\ vcResult.value.forecast = <<mainData.days[1]>>
         /\ vcResult.value.current = <<>>

\* C24: a request answered 400 has caused no outbound call, and an outbound
\* call has been made only for a request that passes all five checks.
C24_NoCallOnBadRequest ==
  /\ (\E i \in 1..Len(responses) : responses[i].status = 400) => outbound = <<>>
  /\ outbound # <<>> => Validated
  /\ ~Validated => (contentPromise = NoPromise /\ timeoutPromise = NoPromise)

\* A request with an out-of-range latitude was answered 400 without any
\* outbound call.
C24_Witness ==
  /\ pc = "done"
  /\ Len(responses) = 1
  /\ responses[1].status = 400
  /\ responses[1].error = "Invalid latitude"
  /\ outbound = <<>>

\* C26 (as claimed): an answer of 504 is given only when the timer won the
\* race; a failure of the provider call, a text that does not parse and a
\* document that lacks a field are never answered 504.
C26_GatewayTimeoutOnlyFromTimer ==
  \A i \in 1..Len(responses) :
    responses[i].status = 504 => raceWinner = "timer"

----------------------------------------------------------------------------
(* Properties of the HTTP request under fair scheduling (SpecLive)         *)

\* C25: a request never has more than one answer, has exactly one once its
\* handler has finished, on every path (400, 200, 504, 500), and every
\* request is eventually answered; a promise that settles after the race
\* adds no answer.
C25_ExactlyOneResponse ==
  /\ [](/\ Len(responses) <= 1
        /\ pc = "done" <=> Len(responses) = 1
        /\ (contentPromise.state # "pending" /\ timeoutPromise.state = "rejected")
             => Len(responses) = 1)
  /\ <>(Len(responses) = 1)

\* The timer fired after the provider call had produced the 200, and there
\* is one answer.
C25_Witness ==
  /\ raceWinner = "content"
  /\ contentPromise.state = "fulfilled"
  /\ timeoutPromise.state = "rejected"
  /\ Len(responses) = 1
  /\ responses[1].status = 200

----------------------------------------------------------------------------
(* Properties of the HomePage component (SpecHome)                         *)

Trends == <<temperatureTrend, rainfallTrend, snowfallTrend>>

\* C27: at every render, loadingState "success" goes with a report, "error"
\* with an error, "idle" with no error, and a trend is shown only while a
\* report is.
C27_PageStateConsistent ==
  /\ loadingState = "success" => weatherReport # <<>>
  /\ loadingState = "error" => error # <<>>
  /\ loadingState = "idle" => error = <<>>
  /\ (\E k \in 1..3 : Trends[k] # <<>>) => weatherReport # <<>>

\* A report is shown with its three trends after an earlier failure was
\* retried.
C27_Witness ==
  /\ loadingState = "success"
  /\ weatherReport # <<>>
  /\ \A k \in 1..3 : Trends[k] # <<>>
  /\ error = <<>>
  /\ Len(submits) = 2
  /\ setStates = <<>>

----------------------------------------------------------------------------
(* Properties of the date sent by the frontend (SpecFormat)                *)

\* C29: the date fetchWeatherReport sends for a DateQuery of DatePicker
\* matches the controller's pattern, and the controller does not answer it
\* with "Invalid date format".
C29_FrontendDateAccepted ==
  /\ formattedDate # <<>> =>
        /\ dateRegex(formattedDate)
        /\ DigitsVal(formattedDate, 1, 3) = date.day
        /\ DigitsVal(formattedDate, 4, 6) = date.month
        /\ DigitsVal(formattedDate, 7, 11) =
             (IF date.year # 0 THEN date.year ELSE clockYear)
  /\ dateCheck # "" => dateCheck = "passed"

\* A one-digit day and month without a year were sent and passed.
C29_Witness ==
  /\ date.day < 10
  /\ date.month < 10
  /\ date.year = 0
  /\ formattedDate # <<>>
  /\ dateCheck = "passed"

----------------------------------------------------------------------------
(* Properties of the LocationPicker component (SpecPicker)                 *)

\* C30 (as claimed): once no timer and no geocoding request is left, the
\* location passed to onChange last has the coordinates of the latest click
\* or drag.
C30_LastReportIsLastPick ==
  (isMountedRef /\ picks # <<>> /\ geocodeTimeoutRef = <<>> /\ geocodeFetches = <<>>)
    => (onChangeCalls # <<>> /\ Last(onChangeCalls).coordinates = Last(picks))

====
